---- MODULE Spec2Model ----
(***************************************************************************)
(* Verification model of the Cortex proxy (cortex-proxy-rs/src/main.rs).   *)
(*                                                                         *)
(* Spec          the SSE stream transducer of anthropic_handler: one       *)
(*               response, fed upstream chunk by upstream chunk.           *)
(* TranslateSpec the Anthropic -> OpenAI request translator                *)
(*               anthropic_to_openai: one request, translated message by   *)
(*               message.                                                  *)
(* DispatchSpec  the request dispatcher: one request through               *)
(*               anthropic_handler or openai_handler, from the client's    *)
(*               body to the response, with the model resolver map_model   *)
(*               and the passthrough rewrite transform_openai.             *)
(***************************************************************************)
EXTENDS Integers, Sequences, FiniteSets, TLC

VARIABLES
    \* ---- SSE stream transducer (anthropic_handler, stream branch) ----
    pc,                  \* position of the async stream generator ("idle": no stream)
    scenario,            \* which upstream is attached: "any", "S4" or "S5"
    consumed,            \* upstream chunks (parsed data payloads) read so far
    ended_by,            \* "none", "end" (stream closed) or "error" (read error)
    out,                 \* Anthropic events yielded so far
    had_text_content,
    final_events_sent,
    tool_indices,        \* tool id -> Anthropic index
    current_tool_id,
    last_content_index,
    tool_count,
    \* ---- request translator (anthropic_to_openai) ----
    tpc,                 \* "loop" while messages are translated, then "done"
                         \* ("idle": no request)
    req_messages,        \* Anthropic messages translated so far
    messages,            \* OpenAI message list built so far
    pending_tool_calls,
    pending_tool_call_ids,
    tool_id_to_name,
    validation,          \* result of validate_tool_conversation: "none" until run
    \* ---- request dispatcher (anthropic_handler, openai_handler) ----
    route,               \* "anthropic" (POST /v1/messages), "openai" (/*path),
                         \* "none": no request
    hpc,                 \* "received", "awaiting" (upstream request sent), "done"
    default_model,       \* AppState.default_model
    model_map,           \* AppState.model_map
    body,                \* the client's request body
    is_streaming,        \* the handler's local of that name
    upstream_request,    \* the request sent upstream, if any
    upstream_reply,      \* what came back from the upstream
    response,            \* the response to the client
    \* ---- upstream byte stream (anthropic_handler, stream branch) ----
    wire,                \* the bytes the upstream sends, in order
    delivered,           \* how many of them byte_stream.next() has returned
    buffer,              \* the handler's local of that name
    \* ---- requests handled at the same time (one task each) ----
    tasks,               \* request -> the position and the locals of its task
    \* ---- router (main) ----
    request_line,        \* method and path of the client's request, if any
    \* ---- desktop GUI (cortex-proxy-gui) ----
    state,               \* GuiApp.state: the AppState of the GUI
    os,                  \* what the GUI acts on: processes, the port, files
    app_pc               \* the event loop: "running", "exit_requested", "exited"
                         \* ("idle": no GUI)

sse_vars == <<pc, scenario, consumed, ended_by, out, had_text_content,
              final_events_sent, tool_indices, current_tool_id,
              last_content_index, tool_count>>
tr_vars == <<tpc, req_messages, messages, pending_tool_calls,
             pending_tool_call_ids, tool_id_to_name, validation>>
disp_vars == <<route, hpc, default_model, model_map, body, is_streaming,
               upstream_request, upstream_reply, response>>
parse_vars == <<wire, delivered, buffer>>
conc_vars == <<tasks>>
router_vars == <<request_line>>
gui_vars == <<state, os, app_pc>>
vars == <<sse_vars, tr_vars, disp_vars, parse_vars, conc_vars, router_vars, gui_vars>>

\* What the actions of one component leave alone.
not_sse_vars == <<tr_vars, disp_vars, parse_vars, conc_vars, router_vars,
                  gui_vars>>
not_tr_vars == <<sse_vars, disp_vars, parse_vars, conc_vars, router_vars,
                  gui_vars>>
not_disp_vars == <<sse_vars, tr_vars, parse_vars, conc_vars, router_vars,
                  gui_vars>>

\* JSON null / absent key.
NULL == "<null>"

\* The empty map (HashMap::new()).
EmptyMap == [k \in {} |-> 0]

\* HashMap::insert: the new value replaces an old one for the same key.
MapInsert(m, k, v) == (k :> v) @@ m

\* ---------------------------------------------------------------------------
\* Bounds
\* ---------------------------------------------------------------------------

\* Number of upstream chunks of a freely chosen upstream stream.
MaxChunks == 4

\* Size of an Anthropic request: its content blocks, a message with string
\* content counting as one.
MaxReqSize == 4

\* The longest message list given to the validator alone.
MaxListLen == 3

\* The most tool_calls entries of an upstream message.
MaxCalls == 2

\* The most blank-line-terminated blocks of an upstream byte stream.
MaxEvents == 2

\* The most upstream chunks of one of the requests handled at the same time.
MaxTaskChunks == 2

\* ---------------------------------------------------------------------------
\* Upstream chunks: choices[0].delta.content, choices[0].delta.tool_calls,
\* choices[0].finish_reason of one parsed "data: " payload.
\* ---------------------------------------------------------------------------

Chunk(content, tool_calls, finish_reason) ==
    [content |-> content, tool_calls |-> tool_calls, finish_reason |-> finish_reason]

\* One entry of delta.tool_calls.
TC(id, name, arguments) == [id |-> id, name |-> name, arguments |-> arguments]

TextChunk(t) == Chunk(t, <<>>, NULL)
OpenChunk(id, name) == Chunk(NULL, <<TC(id, name, NULL)>>, NULL)
ArgsChunk(a) == Chunk(NULL, <<TC(NULL, NULL, a)>>, NULL)
FinishChunk(r) == Chunk(NULL, <<>>, r)

\* The chunks a freely chosen upstream sends.
Alphabet ==
    { TextChunk("hi"),
      OpenChunk("A", "x"),
      OpenChunk("B", "y"),
      ArgsChunk("{}"),
      FinishChunk("stop"),
      FinishChunk("tool_calls"),
      FinishChunk("length"),
      \* a role-only delta: nothing to translate
      Chunk(NULL, <<>>, NULL),
      \* an entry that names an id but no function name, with arguments
      Chunk(NULL, <<TC("A", NULL, "{}")>>, NULL),
      \* two tool calls opened in one chunk
      Chunk(NULL, <<TC("A", "x", NULL), TC("B", "y", "{}")>>, NULL),
      \* text, a tool call with arguments and the finish reason in one chunk
      Chunk("hi", <<TC("B", "y", "{}")>>, "tool_calls") }

\* Scenario S4 of the specification: streamed tools with ambiguous index.
S4Chunks ==
    << OpenChunk("A", "x"), ArgsChunk("{\"v\":"), ArgsChunk("1}"),
       OpenChunk("B", "y"), ArgsChunk("{}"), FinishChunk("tool_calls") >>

\* Scenario S5 of the specification: text then tool.
S5Chunks ==
    << TextChunk("hi"), Chunk(NULL, <<TC("A", "x", "{}")>>, NULL),
       FinishChunk("tool_calls") >>

Script(sc) == IF sc = "S4" THEN S4Chunks ELSE S5Chunks

\* The chunks of an upstream that finishes with any of the reasons the finish
\* path tells apart.
FinishAlphabet ==
    { TextChunk("hi"),
      OpenChunk("A", "x"),
      FinishChunk("stop"),
      FinishChunk("tool_calls"),
      FinishChunk("length"),
      FinishChunk("max_tokens"),
      FinishChunk("content_filter"),
      FinishChunk("") }

\* The chunks the attached upstream can deliver next.
NextChunks ==
    IF scenario = "any"
    THEN IF Len(consumed) < MaxChunks THEN Alphabet ELSE {}
    ELSE IF scenario = "finish"
    THEN IF Len(consumed) < MaxChunks THEN FinishAlphabet ELSE {}
    ELSE IF Len(consumed) < Len(Script(scenario))
         THEN {Script(scenario)[Len(consumed) + 1]}
         ELSE {}

\* ---------------------------------------------------------------------------
\* Anthropic events
\* ---------------------------------------------------------------------------

MessageStartEvent == [type |-> "message_start"]
TextBlockStart ==
    [type |-> "content_block_start", index |-> 0,
     content_block |-> [type |-> "text", text |-> ""]]
TextDelta(text) ==
    [type |-> "content_block_delta", index |-> 0,
     delta |-> [type |-> "text_delta", text |-> text]]
ToolBlockStart(index, id, name) ==
    [type |-> "content_block_start", index |-> index,
     content_block |-> [type |-> "tool_use", id |-> id, name |-> name]]
InputJsonDelta(index, args) ==
    [type |-> "content_block_delta", index |-> index,
     delta |-> [type |-> "input_json_delta", partial_json |-> args]]
BlockStop(index) == [type |-> "content_block_stop", index |-> index]
MessageDelta(stop_reason) == [type |-> "message_delta", stop_reason |-> stop_reason]
MessageStopEvent == [type |-> "message_stop"]

\* ---------------------------------------------------------------------------
\* The transducer's per-chunk handler, over the record of its local variables
\* ---------------------------------------------------------------------------

\* last_content_index before any block was started.
NothingStarted == -1

St ==
    [out |-> out, had_text_content |-> had_text_content,
     final_events_sent |-> final_events_sent, tool_indices |-> tool_indices,
     current_tool_id |-> current_tool_id,
     last_content_index |-> last_content_index, tool_count |-> tool_count]

Emit(s, e) == [s EXCEPT !.out = Append(@, e)]

\* delta.content
TextPath(s, text) ==
    IF text = NULL \/ text = ""
    THEN s
    ELSE LET s1 == IF ~s.had_text_content
                   THEN [Emit(s, TextBlockStart) EXCEPT
                            !.had_text_content = TRUE,
                            !.last_content_index = 0]
                   ELSE s
         IN Emit(s1, TextDelta(text))

\* A bug AnthropicIndex could have: the text block's slot is forgotten.
AnthropicIndex_NoTextOffset(had_text, count) == count

\* The Anthropic index of a newly opened tool call.
AnthropicIndex(had_text, count) == IF had_text THEN 1 + count ELSE count

\* A tool_calls entry with a non-empty id and a non-empty function.name.
NonEmpty(v) == IF v = "" THEN NULL ELSE v

OpenTool(s, id, name) ==
    LET s1 == IF s.last_content_index >= 0
              THEN Emit(s, BlockStop(s.last_content_index))
              ELSE s
        anthropic_index == AnthropicIndex(s.had_text_content, s.tool_count)
    IN Emit([s1 EXCEPT !.tool_count = @ + 1,
                       !.tool_indices = MapInsert(@, id, anthropic_index),
                       !.current_tool_id = id,
                       !.last_content_index = anthropic_index],
            ToolBlockStart(anthropic_index, id, name))

\* A bug ArgsPath could have: the fragment goes to the block started last.
ArgsPath_LastContentIndex(s, args) ==
    IF args = NULL \/ args = ""
    THEN s
    ELSE Emit(s, InputJsonDelta(s.last_content_index, args))

\* function.arguments of an entry: attributed to the current tool.
ArgsPath(s, args) ==
    IF args = NULL \/ args = ""
    THEN s
    ELSE IF s.current_tool_id # NULL /\ s.current_tool_id \in DOMAIN s.tool_indices
         THEN Emit(s, InputJsonDelta(s.tool_indices[s.current_tool_id], args))
         ELSE s

ToolEntry(s, tc) ==
    LET tc_id == NonEmpty(tc.id)
        tc_name == NonEmpty(tc.name)
        s1 == IF tc_id # NULL /\ tc_name # NULL THEN OpenTool(s, tc_id, tc_name) ELSE s
    IN ArgsPath(s1, tc.arguments)

RECURSIVE ToolPath(_, _)
ToolPath(s, tool_calls) ==
    IF tool_calls = <<>>
    THEN s
    ELSE ToolPath(ToolEntry(s, Head(tool_calls)), Tail(tool_calls))

\* A bug StopReason could have: only the upstream's reason is looked at.
StopReason_ReasonOnly(count, reason) ==
    CASE reason = "tool_calls" -> "tool_use"
      [] reason = "stop" -> "end_turn"
      [] reason \in {"length", "max_tokens"} -> "max_tokens"
      [] OTHER -> "end_turn"

\* stop_reason of the finish path.
StopReason(count, reason) ==
    IF count > 0 \/ reason = "tool_calls"
    THEN "tool_use"
    ELSE CASE reason = "stop" -> "end_turn"
           [] reason \in {"length", "max_tokens"} -> "max_tokens"
           [] OTHER -> "end_turn"

\* A bug FinishPath could have: it ends the message itself, as the canned
\* conversation-complete stream does, and the generator ends it again.
FinishPath_AlsoStops(s, reason) ==
    IF reason = NULL
    THEN s
    ELSE LET s1 == IF s.last_content_index >= 0 /\ ~s.final_events_sent
                   THEN Emit(s, BlockStop(s.last_content_index))
                   ELSE s
             s2 == Emit(s1, MessageDelta(StopReason(s.tool_count, reason)))
         IN [Emit(s2, MessageStopEvent) EXCEPT !.final_events_sent = TRUE]

\* choices[0].finish_reason
FinishPath(s, reason) ==
    IF reason = NULL
    THEN s
    ELSE LET s1 == IF s.last_content_index >= 0 /\ ~s.final_events_sent
                   THEN Emit(s, BlockStop(s.last_content_index))
                   ELSE s
         IN [Emit(s1, MessageDelta(StopReason(s.tool_count, reason))) EXCEPT
                !.final_events_sent = TRUE]

HandleChunk(s, c) ==
    FinishPath(ToolPath(TextPath(s, c.content), c.tool_calls), c.finish_reason)

\* stop_reason of the end-of-stream guard.
\* A bug the guard could have: the stop reason does not look at the tool count.
GuardStopReason_EndTurn(count) == "end_turn"

GuardStopReason(count) == IF count > 0 THEN "tool_use" ELSE "end_turn"

\* The events of the end-of-stream guard.
GuardEvents(s) ==
    IF s.final_events_sent
    THEN <<>>
    ELSE (IF s.last_content_index >= 0
          THEN <<BlockStop(s.last_content_index)>>
          ELSE <<>>)
         \o <<MessageDelta(GuardStopReason(s.tool_count))>>

\* ---------------------------------------------------------------------------
\* Transducer actions
\* ---------------------------------------------------------------------------

\* The dispatcher's variables while no request is dispatched.
NoRequest == [kind |-> "none"]
NoReply == [kind |-> "none"]
NoResponse == [kind |-> "none"]
EmptyBody == [kind |-> "empty"]

DispIdle ==
    /\ route = "none"
    /\ hpc = "idle"
    /\ default_model = <<>>
    /\ model_map = <<>>
    /\ body = EmptyBody
    /\ is_streaming = FALSE
    /\ upstream_request = NoRequest
    /\ upstream_reply = NoReply
    /\ response = NoResponse

\* The byte stream's variables while the chunks arrive parsed.
ParseIdle ==
    /\ wire = <<>>
    /\ delivered = 0
    /\ buffer = <<>>

\* One request at a time: no task table.
TasksIdle == tasks = <<>>

\* No request line: the request is already with its handler.
RouterIdle == request_line = <<>>

\* No GUI.
GuiIdle ==
    /\ state = <<>>
    /\ os = <<>>
    /\ app_pc = "idle"

TrIdle ==
    /\ tpc = "idle"
    /\ req_messages = <<>>
    /\ messages = <<>>
    /\ pending_tool_calls = <<>>
    /\ pending_tool_call_ids = <<>>
    /\ tool_id_to_name = EmptyMap
    /\ validation = "none"

Init ==
    /\ pc = "start"
    /\ scenario \in {"any", "finish", "S4", "S5"}
    /\ consumed = <<>>
    /\ ended_by = "none"
    /\ out = <<>>
    /\ had_text_content = FALSE
    /\ final_events_sent = FALSE
    /\ tool_indices = EmptyMap
    /\ current_tool_id = NULL
    /\ last_content_index = NothingStarted
    /\ tool_count = 0
    /\ TrIdle
    /\ DispIdle
    /\ ParseIdle
    /\ TasksIdle
    /\ RouterIdle
    /\ GuiIdle

\* The generator's first yield.
MessageStart ==
    /\ pc = "start"
    /\ out' = Append(out, MessageStartEvent)
    /\ pc' = "reading"
    /\ UNCHANGED <<scenario, consumed, ended_by, had_text_content,
                   final_events_sent, tool_indices, current_tool_id,
                   last_content_index, tool_count>>
    /\ UNCHANGED not_sse_vars

\* One parsed upstream payload goes through the text, tool and finish paths.
ReadChunk ==
    /\ pc = "reading"
    /\ \E c \in NextChunks :
         LET s == HandleChunk(St, c) IN
         /\ consumed' = Append(consumed, c)
         /\ out' = s.out
         /\ had_text_content' = s.had_text_content
         /\ final_events_sent' = s.final_events_sent
         /\ tool_indices' = s.tool_indices
         /\ current_tool_id' = s.current_tool_id
         /\ last_content_index' = s.last_content_index
         /\ tool_count' = s.tool_count
    /\ UNCHANGED <<pc, scenario, ended_by>>
    /\ UNCHANGED not_sse_vars

\* byte_stream.next() returns None.
StreamEnd ==
    /\ pc = "reading"
    /\ pc' = "closing"
    /\ ended_by' = "end"
    /\ UNCHANGED <<scenario, consumed, out, had_text_content, final_events_sent,
                   tool_indices, current_tool_id, last_content_index, tool_count>>
    /\ UNCHANGED not_sse_vars

\* byte_stream.next() returns Err: log and break.
StreamError ==
    /\ pc = "reading"
    /\ pc' = "closing"
    /\ ended_by' = "error"
    /\ UNCHANGED <<scenario, consumed, out, had_text_content, final_events_sent,
                   tool_indices, current_tool_id, last_content_index, tool_count>>
    /\ UNCHANGED not_sse_vars

\* After the loop: the final events, if the finish path never sent them.
EndOfStreamGuard ==
    /\ pc = "closing"
    /\ out' = out \o GuardEvents(St)
    /\ pc' = "stopping"
    /\ UNCHANGED <<scenario, consumed, ended_by, had_text_content,
                   final_events_sent, tool_indices, current_tool_id,
                   last_content_index, tool_count>>
    /\ UNCHANGED not_sse_vars

\* The generator's last yield.
MessageStop ==
    /\ pc = "stopping"
    /\ out' = Append(out, MessageStopEvent)
    /\ pc' = "done"
    /\ UNCHANGED <<scenario, consumed, ended_by, had_text_content,
                   final_events_sent, tool_indices, current_tool_id,
                   last_content_index, tool_count>>
    /\ UNCHANGED not_sse_vars

Next ==
    \/ MessageStart
    \/ ReadChunk
    \/ StreamEnd
    \/ StreamError
    \/ EndOfStreamGuard
    \/ MessageStop

Spec == Init /\ [][Next]_vars

\* ---------------------------------------------------------------------------
\* Properties of the SSE stream transducer
\* ---------------------------------------------------------------------------

IsStart(e) == e.type = "content_block_start"
IsDelta(e) == e.type = "content_block_delta"
IsStop(e) == e.type = "content_block_stop"
Count(o, t) == Cardinality({i \in DOMAIN o : o[i].type = t})
Starts(o) == SelectSeq(o, IsStart)

\* A stop for index idx lies strictly between positions i and k of o.
StoppedBetween(o, idx, i, k) ==
    \E j \in (i + 1)..(k - 1) : IsStop(o[j]) /\ o[j].index = idx

\* The blocks open after the first k events of o.
OpenAt(o, k) ==
    {i \in 1..k : IsStart(o[i]) /\ ~StoppedBetween(o, o[i].index, i, k + 1)}

\* The text deltas and tool-call openings of the upstream, in arrival order.
ChunkItems(c) ==
    (IF c.content = NULL \/ c.content = ""
     THEN <<>>
     ELSE <<[kind |-> "text"]>>)
    \o SelectSeq([i \in DOMAIN c.tool_calls |->
                    IF NonEmpty(c.tool_calls[i].id) # NULL
                       /\ NonEmpty(c.tool_calls[i].name) # NULL
                    THEN [kind |-> "open", id |-> c.tool_calls[i].id,
                          name |-> c.tool_calls[i].name]
                    ELSE [kind |-> "other"]],
                 LAMBDA it : it.kind = "open")

RECURSIVE Items(_)
Items(cs) == IF cs = <<>> THEN <<>> ELSE ChunkItems(Head(cs)) \o Items(Tail(cs))

IsOpen(it) == it.kind = "open"
Opens(cs) == SelectSeq(Items(cs), IsOpen)

\* C1 (as claimed): no two content_block_start events of one response carry
\* the same index, whatever the order of text deltas and new-tool chunks.
C1_IndexUnique ==
    \A i, j \in DOMAIN out :
        (i < j /\ IsStart(out[i]) /\ IsStart(out[j])) => out[i].index # out[j].index

\* C2 (as claimed): the indices of the content_block_start events, in order
\* of emission, are 0, 1, 2, ... without a gap, and the text block, if any
\* text delta is emitted, has index 0.
C2_IndexContiguous ==
    LET s == Starts(out) IN
    /\ \A k \in DOMAIN s : s[k].index = k - 1
    /\ \A k \in DOMAIN s : s[k].content_block.type = "text" => s[k].index = 0

\* C3 (as claimed): every content_block_delta with index i is preceded by a
\* content_block_start with index i with no content_block_stop with index i
\* between that start and the delta.
C3_DeltaOnOpenBlock ==
    \A k \in DOMAIN out :
        IsDelta(out[k]) =>
            \E i \in 1..(k - 1) :
                /\ IsStart(out[i])
                /\ out[i].index = out[k].index
                /\ ~StoppedBetween(out, out[k].index, i, k)

\* C4 (as claimed): at most one block is open at any point of the output, and
\* in a completed response every content_block_start with index i is followed
\* by exactly one content_block_stop with index i, which comes before the
\* message_delta.
C4_BlockLifecycle ==
    /\ \A k \in DOMAIN out : Cardinality(OpenAt(out, k)) <= 1
    /\ pc = "done" =>
         \A i \in DOMAIN out :
             IsStart(out[i]) =>
                 LET stops == {j \in (i + 1)..Len(out) :
                                  IsStop(out[j]) /\ out[j].index = out[i].index}
                 IN /\ Cardinality(stops) = 1
                    /\ \A j \in stops : \A d \in DOMAIN out :
                           out[d].type = "message_delta" => j < d

\* C5: the output never holds a second message_start or an event before it,
\* message_stop is only ever the last event of a finished response, and every
\* finished response (upstream closed or failed) ends with it: exactly one
\* message_start, first, and exactly one message_stop, last.
C5_MessageFraming ==
    /\ out # <<>> => out[1].type = "message_start"
    /\ \A i \in DOMAIN out : out[i].type = "message_start" => i = 1
    /\ \A i \in DOMAIN out :
           out[i].type = "message_stop" => (i = Len(out) /\ pc = "done")
    /\ pc = "done" =>
           /\ Count(out, "message_start") = 1
           /\ Count(out, "message_stop") = 1
           /\ out[Len(out)].type = "message_stop"

\* C5 witness: a response ended by a read error after a finish chunk.
C5_Witness ==
    /\ pc = "done"
    /\ ended_by = "error"
    /\ final_events_sent
    /\ Len(consumed) >= 2
    /\ out[1].type = "message_start"
    /\ out[Len(out)].type = "message_stop"

\* C6 (as claimed): exactly one message_delta is emitted per response, also
\* when more than one upstream chunk carries a finish_reason.
C6_OneMessageDelta ==
    /\ Count(out, "message_delta") <= 1
    /\ pc = "done" => Count(out, "message_delta") = 1

\* C7 (as claimed): every tool-call id the upstream opens appears in exactly
\* one content_block_start, also when the upstream repeats the id and name,
\* and every input_json_delta is emitted under the index of the block of the
\* tool it belongs to (the most recently opened one).
C7_ToolIdStable ==
    /\ \A k \in DOMAIN Opens(consumed) :
           Cardinality({i \in DOMAIN out :
                           /\ IsStart(out[i])
                           /\ out[i].content_block.type = "tool_use"
                           /\ out[i].content_block.id = Opens(consumed)[k].id}) = 1
    /\ \A k \in DOMAIN out :
           (IsDelta(out[k]) /\ out[k].delta.type = "input_json_delta") =>
               \E i \in 1..(k - 1) :
                   /\ IsStart(out[i])
                   /\ out[i].content_block.type = "tool_use"
                   /\ out[i].index = out[k].index
                   /\ \A j \in (i + 1)..(k - 1) :
                          ~(IsStart(out[j]) /\ out[j].content_block.type = "tool_use")

\* The upstream streamed its text, if any, before its tool calls, and opened
\* each tool call once, with pairwise distinct ids.
TextThenDistinctTools(cs) ==
    LET items == Items(cs) IN
    /\ \A i, j \in DOMAIN items :
           (i < j /\ items[i].kind = "open") => items[j].kind = "open"
    /\ \A i, j \in DOMAIN items :
           (i < j /\ items[i].kind = "open") => items[i].id # items[j].id

\* Scenario S4 of the specification: the expected events.
S4Events ==
    << MessageStartEvent,
       ToolBlockStart(0, "A", "x"),
       InputJsonDelta(0, "{\"v\":"),
       InputJsonDelta(0, "1}"),
       BlockStop(0),
       ToolBlockStart(1, "B", "y"),
       InputJsonDelta(1, "{}"),
       BlockStop(1),
       MessageDelta("tool_use"),
       MessageStopEvent >>

\* Scenario S5 of the specification: the expected events.
S5Events ==
    << MessageStartEvent,
       TextBlockStart,
       TextDelta("hi"),
       BlockStop(0),
       ToolBlockStart(1, "A", "x"),
       InputJsonDelta(1, "{}"),
       BlockStop(1),
       MessageDelta("tool_use"),
       MessageStopEvent >>

\* C8: when the upstream streams optional text first and then K tool calls
\* with pairwise distinct ids, the blocks are started with the indices
\* 0, 1, 2, ... in emission order: the text block (if text was emitted) at 0
\* and the tools after it in arrival order; and the complete runs of the
\* scenarios S4 and S5 yield exactly the events the specification lists.
C8_IndexingContract ==
    /\ TextThenDistinctTools(consumed) =>
         LET items == Items(consumed)
             opens == Opens(consumed)
             starts == Starts(out)
             off == IF \E i \in DOMAIN items : items[i].kind = "text" THEN 1 ELSE 0
         IN /\ Len(starts) = off + Len(opens)
            /\ \A k \in DOMAIN starts : starts[k].index = k - 1
            /\ off = 1 => starts[1].content_block.type = "text"
            /\ \A k \in DOMAIN opens :
                   starts[off + k].content_block =
                       [type |-> "tool_use", id |-> opens[k].id, name |-> opens[k].name]
    /\ (scenario = "S4" /\ consumed = S4Chunks /\ pc = "done") => out = S4Events
    /\ (scenario = "S5" /\ consumed = S5Chunks /\ pc = "done") => out = S5Events

\* C8 witness: text, then two tool calls with distinct ids, response finished
\* with the blocks 0 (text), 1 and 2 (tools).
C8_Witness ==
    /\ pc = "done"
    /\ scenario = "any"
    /\ consumed = <<TextChunk("hi"), OpenChunk("A", "x"), OpenChunk("B", "y"),
                    FinishChunk("tool_calls")>>
    /\ Len(Starts(out)) = 3
    /\ Starts(out)[3] = ToolBlockStart(2, "B", "y")

\* ---------------------------------------------------------------------------
\* Request translator: anthropic_to_openai, the loop over the request's
\* messages and the validation of the list it built
\* ---------------------------------------------------------------------------

\* Anthropic content blocks.
TextBlock(t) == [type |-> "text", text |-> t]
ToolUse(id, name, input) ==
    [type |-> "tool_use", id |-> id, name |-> name, input |-> input]
ToolResult(id, content) ==
    [type |-> "tool_result", tool_use_id |-> id, content |-> content]

\* A message's content, or a tool_result's: a JSON string, an array, a number
\* (a value that is neither), or no content at all.
NoContent == [kind |-> "none"]
StringContent(t) == [kind |-> "string", text |-> t]
ArrayContent(blocks) == [kind |-> "array", blocks |-> blocks]
NumberContent(n) == [kind |-> "number", n |-> n]

Msg(role, content) == [role |-> role, content |-> content]

\* serde_json::to_string of a JSON object with number members, given as the
\* sequence of its <<key, number>> members.
RECURSIVE Members(_)
Members(obj) ==
    IF obj = <<>>
    THEN ""
    ELSE ToString(obj[1][1]) \o ":" \o ToString(obj[1][2])
         \o (IF Len(obj) > 1 THEN "," ELSE "") \o Members(Tail(obj))

ToJsonString(obj) == "{" \o Members(obj) \o "}"

\* [String].join(sep)
RECURSIVE Join(_, _)
Join(parts, sep) ==
    IF parts = <<>>
    THEN ""
    ELSE IF Len(parts) = 1
         THEN parts[1]
         ELSE parts[1] \o sep \o Join(Tail(parts), sep)

\* The strings of the model that trim() empties.
Whitespace == {"", " ", "\n", "\t"}

\* text_parts.join("").trim().is_empty(): the join of parts is blank exactly
\* when every part is.
TrimmedIsEmpty(parts) == \A i \in DOMAIN parts : parts[i] \in Whitespace

\* The blocks, roles and messages of the requests explored.
Blocks ==
    { TextBlock("t"),
      TextBlock(" "),
      ToolUse("T1", "f", << <<"a", 1>> >>),
      ToolUse("T2", "g", <<>>),
      ToolResult("T1", StringContent("42")),
      ToolResult("T2", StringContent("43")) }

Roles == {"user", "assistant"}

BlockSeqs(n) == UNION {[1..k -> Blocks] : k \in 1..n}

Weight(msg) ==
    IF msg.content.kind = "array" /\ Len(msg.content.blocks) > 1
    THEN Len(msg.content.blocks)
    ELSE 1

RECURSIVE ReqSize(_)
ReqSize(msgs) == IF msgs = <<>> THEN 0 ELSE Weight(Head(msgs)) + ReqSize(Tail(msgs))

\* The messages the request can continue with.
NextMessages ==
    LET room == MaxReqSize - ReqSize(req_messages) IN
    IF room <= 0
    THEN {}
    ELSE {Msg(r, c) : r \in Roles,
                      c \in {StringContent("q"), NoContent}
                            \cup {ArrayContent(b) : b \in BlockSeqs(room)}}

\* OpenAI messages.
PlainMessage(role, content) == [role |-> role, content |-> content]
ToolCall(id, name, arguments) ==
    [id |-> id, type |-> "function",
     function |-> [name |-> name, arguments |-> arguments]]
AssistantCalls(calls) == [role |-> "assistant", content |-> NULL, tool_calls |-> calls]
ToolMessage(id, name, content) ==
    [role |-> "tool", tool_call_id |-> id, name |-> name, content |-> content]

\* The text of a tool_result's content.
ResultItemText(item) ==
    IF item.kind = "text" THEN <<item.text>> ELSE <<ToString(item.n)>>

RECURSIVE ResultParts(_)
ResultParts(items) ==
    IF items = <<>>
    THEN <<>>
    ELSE (IF Head(items).kind = "text" /\ Head(items).text = NULL
          THEN <<>>
          ELSE ResultItemText(Head(items)))
         \o ResultParts(Tail(items))

ResultText(content) ==
    CASE content.kind = "string" -> content.text
      [] content.kind = "array" -> Join(ResultParts(content.blocks), "\n")
      [] content.kind = "none" -> ""
      [] OTHER -> ToString(content.n)

\* One step of the scan of a message's blocks.
ScanBlock(acc, block) ==
    CASE block.type = "text" ->
           IF block.text = NULL
           THEN acc
           ELSE [acc EXCEPT !.text_parts = Append(@, block.text)]
      [] block.type = "tool_use" ->
           [acc EXCEPT
              !.names = MapInsert(@, block.id, block.name),
              !.tool_calls =
                  Append(@, ToolCall(block.id, block.name, ToJsonString(block.input)))]
      [] block.type = "tool_result" ->
           [acc EXCEPT
              !.tool_results =
                  Append(@, <<block.tool_use_id, ResultText(block.content)>>)]
      [] OTHER -> acc

RECURSIVE ScanBlocks(_, _)
ScanBlocks(acc, blocks) ==
    IF blocks = <<>>
    THEN acc
    ELSE ScanBlocks(ScanBlock(acc, Head(blocks)), Tail(blocks))

\* tool_calls.iter().filter_map(id)
RECURSIVE CallIds(_)
CallIds(calls) ==
    IF calls = <<>> THEN <<>> ELSE <<Head(calls).id>> \o CallIds(Tail(calls))

HasId(results, id) == \E i \in DOMAIN results : results[i][1] = id

\* iter().find: the first element that satisfies the test.
FirstResult(results, id) ==
    results[CHOOSE i \in DOMAIN results :
                /\ results[i][1] = id
                /\ \A j \in 1..(i - 1) : results[j][1] # id]

FirstCall(calls, id) ==
    calls[CHOOSE i \in DOMAIN calls :
              /\ calls[i].id = id
              /\ \A j \in 1..(i - 1) : calls[j].id # id]

\* The results of the queued ids, in queue order.
RECURSIVE MatchedResults(_, _)
MatchedResults(ids, results) ==
    IF ids = <<>>
    THEN <<>>
    ELSE (IF HasId(results, Head(ids))
          THEN <<FirstResult(results, Head(ids))>>
          ELSE <<>>)
         \o MatchedResults(Tail(ids), results)

\* The results whose id is not yet in the ordered list, in input order.
RECURSIVE AppendUnlisted(_, _)
AppendUnlisted(ordered, results) ==
    IF results = <<>>
    THEN ordered
    ELSE AppendUnlisted(IF HasId(ordered, Head(results)[1])
                        THEN ordered
                        ELSE Append(ordered, Head(results)),
                        Tail(results))

OrderedResults(ids, results) ==
    IF ids # <<>>
    THEN AppendUnlisted(MatchedResults(ids, results), results)
    ELSE results

\* tool_id_to_name.get(id).cloned().unwrap_or_default()
NameOf(names, id) == IF id \in DOMAIN names THEN names[id] ELSE ""

\* A bug EmitPairs could have: the calls of a turn are sent in one assistant
\* message, followed by their tool messages.
RECURSIVE ToolMessages(_, _)
ToolMessages(names, ordered) ==
    IF ordered = <<>>
    THEN <<>>
    ELSE <<ToolMessage(Head(ordered)[1], NameOf(names, Head(ordered)[1]), Head(ordered)[2])>>
         \o ToolMessages(names, Tail(ordered))

EmitPairs_Batched(calls, names, ordered) ==
    <<AssistantCalls(calls)>> \o ToolMessages(names, ordered)

\* A bug EmitPairs could have: the tool message is pushed before the assistant
\* message that carries its call.
RECURSIVE EmitPairs_ResultFirst(_, _, _)
EmitPairs_ResultFirst(calls, names, ordered) ==
    IF ordered = <<>>
    THEN <<>>
    ELSE LET id == Head(ordered)[1] IN
         <<ToolMessage(id, NameOf(names, id), Head(ordered)[2])>>
         \o (IF \E i \in DOMAIN calls : calls[i].id = id
             THEN <<AssistantCalls(<<FirstCall(calls, id)>>)>>
             ELSE <<>>)
         \o EmitPairs_ResultFirst(calls, names, Tail(ordered))

\* The sequential emit: per ordered result, the assistant message with its
\* call (if the call is queued) and then the tool message.
RECURSIVE EmitPairs(_, _, _)
EmitPairs(calls, names, ordered) ==
    IF ordered = <<>>
    THEN <<>>
    ELSE LET id == Head(ordered)[1] IN
         (IF \E i \in DOMAIN calls : calls[i].id = id
          THEN <<AssistantCalls(<<FirstCall(calls, id)>>)>>
          ELSE <<>>)
         \o <<ToolMessage(id, NameOf(names, id), Head(ordered)[2])>>
         \o EmitPairs(calls, names, Tail(ordered))

\* The translator's loop variables.
Tr ==
    [messages |-> messages, pending_tool_calls |-> pending_tool_calls,
     pending_tool_call_ids |-> pending_tool_call_ids,
     tool_id_to_name |-> tool_id_to_name]

\* A bug AssistantBranch could have: the calls are sent with the assistant
\* message instead of being queued.
AssistantBranch_EmitsCalls(t, scan) ==
    LET content == Join(scan.text_parts, "") IN
    IF scan.tool_calls # <<>>
    THEN [t EXCEPT
            !.messages = (IF content # ""
                          THEN Append(@, PlainMessage("assistant", content))
                          ELSE @) \o <<AssistantCalls(scan.tool_calls)>>]
    ELSE IF content # ""
         THEN [t EXCEPT !.messages = Append(@, PlainMessage("assistant", content))]
         ELSE t

\* An assistant message with content blocks.
AssistantBranch(t, scan) ==
    LET content == Join(scan.text_parts, "") IN
    IF scan.tool_calls # <<>>
    THEN [t EXCEPT
            !.messages = IF content # ""
                         THEN Append(@, PlainMessage("assistant", content))
                         ELSE @,
            !.pending_tool_call_ids = CallIds(scan.tool_calls),
            !.pending_tool_calls = scan.tool_calls]
    ELSE IF content # ""
         THEN [t EXCEPT !.messages = Append(@, PlainMessage("assistant", content))]
         ELSE t

\* A message of any other role with content blocks.
UserBranch(t, role, scan) ==
    LET ordered == OrderedResults(t.pending_tool_call_ids, scan.tool_results)
        t1 == IF scan.tool_results = <<>>
              THEN t
              ELSE IF t.pending_tool_calls # <<>>
                   THEN [t EXCEPT
                           !.messages = @ \o EmitPairs(t.pending_tool_calls,
                                                       t.tool_id_to_name, ordered),
                           !.pending_tool_calls = <<>>,
                           !.pending_tool_call_ids = <<>>]
                   ELSE [t EXCEPT
                           !.messages = @ \o ToolMessages(t.tool_id_to_name, ordered)]
        combined_text == Join(scan.text_parts, "")
    IN IF TrimmedIsEmpty(scan.text_parts)
       THEN t1
       ELSE IF scan.tool_results = <<>>
            THEN [t1 EXCEPT !.messages = Append(@, PlainMessage(role, combined_text))]
            ELSE [t1 EXCEPT !.messages = Append(@, PlainMessage("user", combined_text))]

\* One iteration of the loop over the request's messages.
TranslateMessage(t, msg) ==
    IF msg.content.kind = "string"
    THEN [t EXCEPT !.messages = Append(@, PlainMessage(msg.role, msg.content.text))]
    ELSE IF msg.content.kind = "array"
         THEN LET scan == ScanBlocks([text_parts |-> <<>>, tool_calls |-> <<>>,
                                      tool_results |-> <<>>,
                                      names |-> t.tool_id_to_name],
                                     msg.content.blocks)
                  t1 == [t EXCEPT !.tool_id_to_name = scan.names]
              IN IF msg.role = "assistant"
                 THEN AssistantBranch(t1, scan)
                 ELSE UserBranch(t1, msg.role, scan)
         ELSE [t EXCEPT !.messages = Append(@, PlainMessage(msg.role, ""))]

\* A bug validate_tool_conversation could have: a tool message does not take
\* its id off the pending list.
RECURSIVE PendingAfter_NoRetain(_, _)
PendingAfter_NoRetain(pending, msgs) ==
    IF msgs = <<>>
    THEN pending
    ELSE LET m == Head(msgs)
             next ==
                 IF m.role = "assistant"
                 THEN IF "tool_calls" \in DOMAIN m THEN CallIds(m.tool_calls) ELSE <<>>
                 ELSE pending
         IN PendingAfter_NoRetain(next, Tail(msgs))

\* validate_tool_conversation: the pending ids after the messages msgs.
RECURSIVE PendingAfter(_, _)
PendingAfter(pending, msgs) ==
    IF msgs = <<>>
    THEN pending
    ELSE LET m == Head(msgs)
             next ==
                 IF m.role = "assistant"
                 THEN IF "tool_calls" \in DOMAIN m THEN CallIds(m.tool_calls) ELSE <<>>
                 ELSE IF m.role = "tool"
                      THEN SelectSeq(pending, LAMBDA x : x # m.tool_call_id)
                      ELSE pending
         IN PendingAfter(next, Tail(msgs))

validate_tool_conversation(msgs) ==
    IF PendingAfter(<<>>, msgs) # <<>> THEN "err" ELSE "ok"

\* The transducer's variables while a request is translated.
SseIdle ==
    /\ pc = "idle"
    /\ scenario = "any"
    /\ consumed = <<>>
    /\ ended_by = "none"
    /\ out = <<>>
    /\ had_text_content = FALSE
    /\ final_events_sent = FALSE
    /\ tool_indices = EmptyMap
    /\ current_tool_id = NULL
    /\ last_content_index = NothingStarted
    /\ tool_count = 0

TranslateInit ==
    /\ tpc = "loop"
    /\ req_messages = <<>>
    /\ messages = <<>>
    /\ pending_tool_calls = <<>>
    /\ pending_tool_call_ids = <<>>
    /\ tool_id_to_name = EmptyMap
    /\ validation = "none"
    /\ SseIdle
    /\ DispIdle
    /\ ParseIdle
    /\ TasksIdle
    /\ RouterIdle
    /\ GuiIdle

\* The loop body for the request's next message.
TranslateStep ==
    /\ tpc = "loop"
    /\ \E msg \in NextMessages :
         LET t == TranslateMessage(Tr, msg) IN
         /\ req_messages' = Append(req_messages, msg)
         /\ messages' = t.messages
         /\ pending_tool_calls' = t.pending_tool_calls
         /\ pending_tool_call_ids' = t.pending_tool_call_ids
         /\ tool_id_to_name' = t.tool_id_to_name
    /\ UNCHANGED <<tpc, validation>>
    /\ UNCHANGED not_tr_vars

\* After the last message: the list is validated and returned.
TranslateFinish ==
    /\ tpc = "loop"
    /\ tpc' = "done"
    /\ validation' = validate_tool_conversation(messages)
    /\ UNCHANGED <<req_messages, messages, pending_tool_calls,
                   pending_tool_call_ids, tool_id_to_name>>
    /\ UNCHANGED not_tr_vars

TranslateNext ==
    \/ TranslateStep
    \/ TranslateFinish

TranslateSpec == TranslateInit /\ [][TranslateNext]_vars

\* ---------------------------------------------------------------------------
\* Properties of the request translator
\* ---------------------------------------------------------------------------

HasCalls(m) == m.role = "assistant" /\ "tool_calls" \in DOMAIN m

\* C9: in the translated list every assistant message that carries tool_calls
\* carries exactly one call and is immediately followed by a tool message
\* whose tool_call_id is that call's id.
C9_PairingInvariant ==
    \A i \in DOMAIN messages :
        HasCalls(messages[i]) =>
            /\ Len(messages[i].tool_calls) = 1
            /\ i < Len(messages)
            /\ messages[i + 1].role = "tool"
            /\ messages[i + 1].tool_call_id = messages[i].tool_calls[1].id

\* C9 witness: two calls of one assistant turn answered in reverse order were
\* translated into two adjacent call/result pairs.
C9_Witness ==
    /\ tpc = "done"
    /\ req_messages =
         << Msg("assistant", ArrayContent(<<ToolUse("T1", "f", << <<"a", 1>> >>),
                                            ToolUse("T2", "g", <<>>)>>)),
            Msg("user", ArrayContent(<<ToolResult("T2", StringContent("43")),
                                       ToolResult("T1", StringContent("42"))>>)) >>
    /\ Len(messages) = 4
    /\ HasCalls(messages[1])
    /\ HasCalls(messages[3])

\* C10 (as claimed): every tool_use block of an assistant message of the
\* request appears as a tool_calls entry of some assistant message of the
\* translated list.
C10_NoToolUseDropped ==
    tpc = "done" =>
        \A i \in DOMAIN req_messages :
            (req_messages[i].role = "assistant" /\ req_messages[i].content.kind = "array") =>
                \A b \in DOMAIN req_messages[i].content.blocks :
                    LET block == req_messages[i].content.blocks[b] IN
                    block.type = "tool_use" =>
                        \E k \in DOMAIN messages :
                            /\ HasCalls(messages[k])
                            /\ \E c \in DOMAIN messages[k].tool_calls :
                                   /\ messages[k].tool_calls[c].id = block.id
                                   /\ messages[k].tool_calls[c].function.name = block.name

\* The blocks of a request message (none when its content is not an array).
BlocksOf(m) == IF m.content.kind = "array" THEN m.content.blocks ELSE <<>>

\* The ids of the tool_use blocks, and of the tool_result blocks, of a message.
ToolUseIds(m) ==
    {BlocksOf(m)[b].id : b \in {k \in DOMAIN BlocksOf(m) : BlocksOf(m)[k].type = "tool_use"}}
ToolResultIds(m) ==
    {BlocksOf(m)[b].tool_use_id :
        b \in {k \in DOMAIN BlocksOf(m) : BlocksOf(m)[k].type = "tool_result"}}

\* Some assistant tool_use of the request has no tool_result with its id in a
\* later user message.
HasUnmatchedToolUse(req) ==
    \E i \in DOMAIN req :
        /\ req[i].role = "assistant"
        /\ \E id \in ToolUseIds(req[i]) :
               ~ \E j \in (i + 1)..Len(req) :
                     req[j].role = "user" /\ id \in ToolResultIds(req[j])

\* C11 (as claimed): when some assistant tool_use id of the request has no
\* tool_result with that id in a later user message, the validation of the
\* translated list returns an error.
C11_UnmatchedFailValidation ==
    (tpc = "done" /\ HasUnmatchedToolUse(req_messages)) => validation = "err"

\* Every assistant turn's tool_uses are answered by tool_results in the next
\* message, a user message.
MatchedRequest(req) ==
    \A i \in DOMAIN req :
        (req[i].role = "assistant" /\ ToolUseIds(req[i]) # {}) =>
            /\ i < Len(req)
            /\ req[i + 1].role = "user"
            /\ ToolUseIds(req[i]) \subseteq ToolResultIds(req[i + 1])

\* C12: for a request whose tool_use blocks are matched (each assistant
\* turn's tool_uses answered by tool_results in the next user message) the
\* validation of the translated list returns OK.
C12_MatchedRoundTrip ==
    (tpc = "done" /\ MatchedRequest(req_messages)) => validation = "ok"

\* C12 witness: a matched request with two tool_uses was translated and
\* validated.
C12_Witness ==
    /\ tpc = "done"
    /\ MatchedRequest(req_messages)
    /\ \E i \in DOMAIN req_messages : Cardinality(ToolUseIds(req_messages[i])) = 2
    /\ \E k \in DOMAIN messages : HasCalls(messages[k])
    /\ validation = "ok"

\* The tool_result blocks of a request message, in input order.
ResultBlocks(m) == SelectSeq(BlocksOf(m), LAMBDA b : b.type = "tool_result")

\* What a translated message is to the pairing: an assistant message with its
\* call ids, a tool message with its id and content, or a text message.
PairTag(m) ==
    IF HasCalls(m)
    THEN <<"assistant", CallIds(m.tool_calls)>>
    ELSE IF m.role = "tool"
         THEN <<"tool", m.tool_call_id, m.content>>
         ELSE <<"text">>

\* The (assistant tool_call, tool) pairs of the queued ids, in queue order.
RECURSIVE QueuePairs(_, _)
QueuePairs(ids, results) ==
    IF ids = <<>>
    THEN <<>>
    ELSE LET r == SelectSeq(results, LAMBDA b : b.tool_use_id = Head(ids)) IN
         << <<"assistant", <<Head(ids)>> >>,
            <<"tool", Head(ids), ResultText(r[1].content)>> >>
         \o QueuePairs(Tail(ids), results)

\* The tool messages of the results whose id is not queued, in input order.
RECURSIVE UnqueuedTools(_, _)
UnqueuedTools(ids, results) ==
    IF results = <<>>
    THEN <<>>
    ELSE (IF \E i \in DOMAIN ids : ids[i] = Head(results).tool_use_id
          THEN <<>>
          ELSE << <<"tool", Head(results).tool_use_id,
                    ResultText(Head(results).content)>> >>)
         \o UnqueuedTools(ids, Tail(results))

\* The queue holds distinct ids and the message carries exactly one
\* tool_result for each of them.
AnswersQueue(ids, m) ==
    /\ m.role = "user"
    /\ ids # <<>>
    /\ \A i, j \in DOMAIN ids : ids[i] = ids[j] => i = j
    /\ \A i \in DOMAIN ids :
           Len(SelectSeq(ResultBlocks(m), LAMBDA b : b.tool_use_id = ids[i])) = 1

\* The messages a loop step appended, without the text message.
EmittedPairs(before, after) ==
    LET added == SubSeq(after, Len(before) + 1, Len(after))
        tags == [k \in DOMAIN added |-> PairTag(added[k])]
    IN SelectSeq(tags, LAMBDA t : t[1] # "text")

ReorderStep(m) ==
    EmittedPairs(messages, messages') =
        QueuePairs(pending_tool_call_ids, ResultBlocks(m))
        \o UnqueuedTools(pending_tool_call_ids, ResultBlocks(m))

\* C13 (as claimed): when a user message carries one tool_result for each
\* queued tool_use of the previous assistant turn (distinct ids), in any
\* order, the step emits the (assistant tool_call, tool) pairs in the order
\* of the queued ids, each pair adjacent, followed by a tool message for every
\* result whose id is not queued, in input order.
C13_ReorderByQueue ==
    [][(tpc = "loop" /\ Len(req_messages') = Len(req_messages) + 1
        /\ AnswersQueue(pending_tool_call_ids, req_messages'[Len(req_messages')]))
       => ReorderStep(req_messages'[Len(req_messages')])]_vars

\* The same with the results' ids pairwise distinct.
DistinctResultIds(m) ==
    \A i, j \in DOMAIN ResultBlocks(m) :
        ResultBlocks(m)[i].tool_use_id = ResultBlocks(m)[j].tool_use_id => i = j

C13_ReorderDistinctResults ==
    [][(tpc = "loop" /\ Len(req_messages') = Len(req_messages) + 1
        /\ AnswersQueue(pending_tool_call_ids, req_messages'[Len(req_messages')])
        /\ DistinctResultIds(req_messages'[Len(req_messages')]))
       => ReorderStep(req_messages'[Len(req_messages')])]_vars

\* ---------------------------------------------------------------------------
\* The end-of-stream guard of the transducer
\* ---------------------------------------------------------------------------

NoFinishSeen(cs) == \A i \in DOMAIN cs : cs[i].finish_reason = NULL

ToolOpened(o) ==
    \E i \in DOMAIN o : IsStart(o[i]) /\ o[i].content_block.type = "tool_use"

\* What the response must end with when no finish_reason was seen: the stop
\* of the most recently started block, if a block was started, the
\* message_delta and message_stop.
GuardTail(o) ==
    (IF Starts(o) # <<>>
     THEN <<BlockStop(Starts(o)[Len(Starts(o))].index)>>
     ELSE <<>>)
    \o <<MessageDelta(IF ToolOpened(o) THEN "tool_use" ELSE "end_turn"),
         MessageStopEvent>>

EndsWithGuardTail(o) ==
    /\ Len(o) >= Len(GuardTail(o))
    /\ SubSeq(o, Len(o) - Len(GuardTail(o)) + 1, Len(o)) = GuardTail(o)
    /\ Count(o, "message_delta") = 1
    /\ \A i \in DOMAIN o :
           (IsStart(o[i]) /\ \A j \in (i + 1)..Len(o) : ~IsStart(o[j])) =>
               Cardinality({j \in (i + 1)..Len(o) : IsStop(o[j])}) = 1

UpperCase == <<"A", "B", "C", "D", "E", "F", "G", "H", "I", "J", "K", "L", "M", "N", "O", "P", "Q", "R", "S", "T", "U", "V", "W", "X", "Y", "Z">>
LowerCase == <<"a", "b", "c", "d", "e", "f", "g", "h", "i", "j", "k", "l", "m", "n", "o", "p", "q", "r", "s", "t", "u", "v", "w", "x", "y", "z">>

\* char::to_lowercase for the ASCII letters; other characters are unchanged.
to_lowercase_char(c) ==
    IF \E i \in DOMAIN UpperCase : UpperCase[i] = c
    THEN LowerCase[CHOOSE i \in DOMAIN UpperCase : UpperCase[i] = c]
    ELSE c

\* str::to_lowercase
to_lowercase(s) == [i \in DOMAIN s |-> to_lowercase_char(s[i])]

\* str::contains
contains(s, pat) ==
    \E i \in 0..(Len(s) - Len(pat)) : SubSeq(s, i + 1, i + Len(pat)) = pat

\* The literals of the model resolver.
PAT_OPUS_4_5 == <<"o", "p", "u", "s", "-", "4", "-", "5">>
PAT_4_5_OPUS == <<"4", "-", "5", "-", "o", "p", "u", "s">>
PAT_4_OPUS == <<"4", "-", "o", "p", "u", "s">>
PAT_OPUS_4 == <<"o", "p", "u", "s", "-", "4">>
PAT_HAIKU == <<"h", "a", "i", "k", "u">>
PAT_3_5 == <<"3", "-", "5">>
PAT_SONNET == <<"s", "o", "n", "n", "e", "t">>

CLAUDE_OPUS_4_5 == <<"c", "l", "a", "u", "d", "e", "-", "o", "p", "u", "s", "-", "4", "-", "5">>
CLAUDE_4_OPUS == <<"c", "l", "a", "u", "d", "e", "-", "4", "-", "o", "p", "u", "s">>
CLAUDE_HAIKU_4_5 == <<"c", "l", "a", "u", "d", "e", "-", "h", "a", "i", "k", "u", "-", "4", "-", "5">>
CLAUDE_3_5_SONNET == <<"c", "l", "a", "u", "d", "e", "-", "3", "-", "5", "-", "s", "o", "n", "n", "e", "t">>
CLAUDE_4_SONNET == <<"c", "l", "a", "u", "d", "e", "-", "4", "-", "s", "o", "n", "n", "e", "t">>

UpstreamNames ==
    {CLAUDE_OPUS_4_5, CLAUDE_4_OPUS, CLAUDE_HAIKU_4_5, CLAUDE_3_5_SONNET, CLAUDE_4_SONNET}

\* ---------------------------------------------------------------------------
\* Model resolver
\* ---------------------------------------------------------------------------

\* A bug map_model could have: the rule for 4-opus and opus-4 is tested before
\* the rule for opus-4-5 and 4-5-opus.
ModelHeuristics_OpusFirst(model) ==
    LET m == to_lowercase(model) IN
    IF contains(m, PAT_4_OPUS) \/ contains(m, PAT_OPUS_4)
    THEN CLAUDE_4_OPUS
    ELSE IF contains(m, PAT_OPUS_4_5) \/ contains(m, PAT_4_5_OPUS)
         THEN CLAUDE_OPUS_4_5
         ELSE IF contains(m, PAT_HAIKU)
              THEN CLAUDE_HAIKU_4_5
              ELSE IF contains(m, PAT_3_5) /\ contains(m, PAT_SONNET)
                   THEN CLAUDE_3_5_SONNET
                   ELSE CLAUDE_4_SONNET

\* The substring rules of map_model, in their priority, and the default.
ModelHeuristics(model) ==
    LET m == to_lowercase(model) IN
    IF contains(m, PAT_OPUS_4_5) \/ contains(m, PAT_4_5_OPUS)
    THEN CLAUDE_OPUS_4_5
    ELSE IF contains(m, PAT_4_OPUS) \/ contains(m, PAT_OPUS_4)
         THEN CLAUDE_4_OPUS
         ELSE IF contains(m, PAT_HAIKU)
              THEN CLAUDE_HAIKU_4_5
              ELSE IF contains(m, PAT_3_5) /\ contains(m, PAT_SONNET)
                   THEN CLAUDE_3_5_SONNET
                   ELSE CLAUDE_4_SONNET

\* A bug map_model could have: the model map is only the fallback of the
\* substring rules.
map_model_HeuristicsFirst(model, map) ==
    IF ModelHeuristics(model) # CLAUDE_4_SONNET
    THEN ModelHeuristics(model)
    ELSE IF model \in DOMAIN map THEN map[model] ELSE CLAUDE_4_SONNET

map_model(model, map) ==
    IF model \in DOMAIN map
    THEN map[model]
    ELSE ModelHeuristics(model)

\* ---------------------------------------------------------------------------
\* Request dispatcher: bodies, configuration and upstream replies
\* ---------------------------------------------------------------------------

\* Option<T>: None is the empty sequence, Some(x) the sequence of x.
None == <<>>
Some(x) == <<x>>

\* JSON values.
JStr(s) == [str |-> s]
JNum(n) == [num |-> n]
JBool(b) == [bool |-> b]

\* A request body: no bytes, bytes that are not JSON, or a JSON object.
\* canonical: the bytes are what serde_json writes for the object.
TextBody == [kind |-> "text"]
JsonBody(canonical, obj) == [kind |-> "json", canonical |-> canonical, obj |-> obj]

\* Value::get, as_str and as_bool.
Get(obj, key) == IF key \in DOMAIN obj THEN Some(obj[key]) ELSE None
as_str(opt) == IF opt # None /\ "str" \in DOMAIN opt[1] THEN Some(opt[1].str) ELSE None
as_bool(opt) == IF opt # None /\ "bool" \in DOMAIN opt[1] THEN Some(opt[1].bool) ELSE None
unwrap_or(opt, d) == IF opt = None THEN d ELSE opt[1]

Field(key, opt) == IF opt = None THEN <<>> ELSE (key :> opt[1])
Remove(obj, keys) == [k \in DOMAIN obj \ keys |-> obj[k]]

\* Model names a client asks for.
CLAUDE_SONNET_4_5 == <<"c", "l", "a", "u", "d", "e", "-", "s", "o", "n", "n", "e", "t", "-", "4", "-", "5">>
CLAUDE_OPUS_4_5_MIXED == <<"C", "l", "a", "u", "d", "e", "-", "O", "p", "u", "s", "-", "4", "-", "5">>
CLAUDE_3_5_HAIKU == <<"c", "l", "a", "u", "d", "e", "-", "3", "-", "5", "-", "h", "a", "i", "k", "u">>
GPT_4O == <<"g", "p", "t", "-", "4", "o">>
MY_MODEL == <<"m", "y", "-", "m", "o", "d", "e", "l">>
CLAUDE_4_5_OPUS == <<"c", "l", "a", "u", "d", "e", "-", "4", "-", "5", "-", "o", "p", "u", "s">>
CLAUDE_OPUS_4_1 == <<"c", "l", "a", "u", "d", "e", "-", "o", "p", "u", "s", "-", "4", "-", "1">>
SONNET_3_5_HAIKU == <<"S", "o", "n", "n", "e", "t", "-", "3", "-", "5", "-", "H", "a", "i", "k", "u">>

RequestedNames ==
    UpstreamNames \cup {CLAUDE_SONNET_4_5, CLAUDE_OPUS_4_5_MIXED, CLAUDE_3_5_HAIKU, GPT_4O,
                         CLAUDE_4_5_OPUS, CLAUDE_OPUS_4_1, SONNET_3_5_HAIKU}

\* AppState: the configured model maps and default models.
ModelMaps ==
    { <<>>,
      (GPT_4O :> CLAUDE_OPUS_4_5),
      (CLAUDE_3_5_HAIKU :> CLAUDE_4_OPUS),
      (CLAUDE_4_SONNET :> CLAUDE_SONNET_4_5) }
DefaultModels == {CLAUDE_4_SONNET, MY_MODEL}

StrippedKeys ==
    {"reasoning", "reasoningBudgetTokens", "service_tier", "parallel_tool_calls",
     "logprobs", "seed"}

ModelValues == {None, Some(JNum(7))} \cup {Some(JStr(n)) : n \in RequestedNames}
StreamValues == {None, Some(JBool(TRUE)), Some(JBool(FALSE))}

\* The bodies sent to POST /v1/messages (the messages are the translator's).
AnthropicBodies ==
    {EmptyBody, TextBody}
    \cup {JsonBody(TRUE, Field("model", m) @@ Field("stream", st)) :
            m \in ModelValues, st \in StreamValues}

\* The bodies sent to the passthrough route.
ExtraKeys == { <<>>, ("seed" :> JNum(1)) @@ ("temperature" :> JNum(1)),
               ("reasoning" :> JStr(<<"h", "i">>)) @@ ("logprobs" :> JBool(TRUE)) }
OpenAIBodies ==
    {EmptyBody, TextBody}
    \cup {JsonBody(c, Field("model", m) @@ Field("stream", st)
                      @@ Field("max_tokens", mt)
                      @@ Field("max_completion_tokens", mct) @@ x) :
            c \in BOOLEAN, m \in ModelValues, st \in StreamValues,
            mt \in {None, Some(JNum(100))}, mct \in {None, Some(JNum(50))},
            x \in ExtraKeys}

\* A character of two UTF-8 bytes.
E_ACUTE == "U+00E9"
len_utf8(c) == IF c = E_ACUTE THEN 2 ELSE 1

\* The positions of the two-byte characters of s, and its length in bytes.
Wide(s) == {i \in DOMAIN s : len_utf8(s[i]) = 2}
Utf8Len(s) == Len(s) + Cardinality(Wide(s))

\* str::is_char_boundary(k): k is the byte offset of the end of a prefix.
is_char_boundary(s, k) ==
    LET w == Wide(s) IN
    \E i \in 0..Len(s) : i + Cardinality({j \in w : j <= i}) = k

Repeat(c, n) == [i \in 1..n |-> c]

\* The literals of the conversation-complete test.
FINAL_POSITION == <<"f", "i", "n", "a", "l", " ", "p", "o", "s", "i", "t", "i", "o", "n">>
TOOL_RESULT == <<"t", "o", "o", "l", "_", "r", "e", "s", "u", "l", "t">>
TOOL_RESULT_MIXED == <<"T", "o", "o", "l", "_", "R", "e", "s", "u", "l", "t">>
FINAL_POSITION_MIXED == <<"F", "i", "n", "a", "l", " ", "P", "o", "s", "i", "t", "i", "o", "n">>
BAD_REQUEST == <<"b", "a", "d", " ", "r", "e", "q", "u", "e", "s", "t">>

\* The bytes of the error body the handler writes to the log.
LogPrefixBytes == 200

\* Upstream error bodies: short ones, and ones longer than the logged prefix,
\* with its end inside and at the end of a two-byte character.
ErrorBodies ==
    { TOOL_RESULT, TOOL_RESULT_MIXED, FINAL_POSITION, FINAL_POSITION_MIXED,
      BAD_REQUEST, <<>>,
      Repeat("x", LogPrefixBytes - 1) \o <<E_ACUTE>> \o TOOL_RESULT,
      Repeat("x", LogPrefixBytes - 2) \o <<E_ACUTE>> \o TOOL_RESULT,
      Repeat("x", LogPrefixBytes - 1) \o <<E_ACUTE>> \o BAD_REQUEST }

is_success(status) == status \in 200..299

\* What the upstream answers: a status and a body; is_json: the body parses
\* as JSON. A failed send has no reply.
Reply(status, text, is_json) ==
    [kind |-> "reply", status |-> status, body |-> text, is_json |-> is_json]
SendFailed == [kind |-> "failed"]

UpstreamReplies ==
    {Reply(st, b, FALSE) : st \in {400, 404, 500}, b \in ErrorBodies}
    \cup {Reply(200, <<"{", "}">>, TRUE), Reply(200, BAD_REQUEST, FALSE)}

\* ---------------------------------------------------------------------------
\* Request dispatcher: the Anthropic route
\* ---------------------------------------------------------------------------

\* anthropic_to_openai without the message loop (the translator above): the
\* parse, the model resolution and the stream flag.
anthropic_to_openai(b, dm, map) ==
    IF b.kind # "json"
    THEN [ok |-> FALSE]
    ELSE LET model == unwrap_or(as_str(Get(b.obj, "model")), dm)
             snowflake_model == map_model(model, map)
             streaming == unwrap_or(as_bool(Get(b.obj, "stream")), FALSE)
         IN [ok |-> TRUE,
             openai_req |-> ("model" :> JStr(snowflake_model))
                            @@ ("stream" :> JBool(streaming)),
             is_streaming |-> streaming]

\* StatusCode::from_u16(code).unwrap_or(fallback)
from_u16(code, fallback) == IF code \in 100..999 THEN code ELSE fallback

\* The texts of error messages: an error's own text, with the prefix the
\* handler puts before it, or an upstream body.
ErrorText(prefix, error) == [prefix |-> prefix, error |-> error]
BodyText(text) == [text |-> text]

anthropic_error(code, msg) ==
    [status |-> from_u16(code, 500), content_type |-> "application/json",
     body |-> [json |-> [type |-> "error",
                         error |-> [type |-> "api_error", message |-> msg]]]]

MessageStartFor(id, model) ==
    [type |-> "message_start", message |-> [id |-> id, model |-> model]]

anthropic_complete(streaming, model) ==
    IF streaming
    THEN [status |-> 200, content_type |-> "text/event-stream",
          body |-> [sse |-> <<MessageStartFor("msg_done", model), TextBlockStart,
                              TextDelta("Done."), BlockStop(0),
                              MessageDelta("end_turn"), MessageStopEvent>>]]
    ELSE [status |-> 200, content_type |-> "application/json",
          body |-> [json |-> [id |-> "msg_done", type |-> "message",
                              role |-> "assistant",
                              content |-> <<[type |-> "text", text |-> "Done."]>>,
                              model |-> model, stop_reason |-> "end_turn"]]]

\* &error_body[..error_body.len().min(200)] panics when the prefix ends inside
\* a character.
LogPrefixPanics(error_body) ==
    /\ Utf8Len(error_body) > LogPrefixBytes
    /\ ~is_char_boundary(error_body, LogPrefixBytes)

\* The handler task panicked: the connection is closed without a response.
Panicked == [kind |-> "panic"]

\* The conversation-complete test of the Anthropic handler.
ConversationComplete(status, error_body) ==
    /\ status = 400
    /\ \/ contains(to_lowercase(error_body), FINAL_POSITION)
       \/ contains(to_lowercase(error_body), TOOL_RESULT)

\* JSON null and arrays; Value::as_array, as_u64 and Index (value[key]): a
\* missing key gives null, on which every get gives None, as on <<>>.
JNull == [null |-> TRUE]
JArr(seq) == [arr |-> seq]
as_array(opt) == IF opt # None /\ "arr" \in DOMAIN opt[1] THEN Some(opt[1].arr) ELSE None
as_u64(opt) == IF opt # None /\ "num" \in DOMAIN opt[1] THEN Some(opt[1].num) ELSE None
Index(obj, key) == IF key \in DOMAIN obj THEN obj[key] ELSE <<>>

\* serde_json::from_str on the argument texts of the replies: the texts that
\* are JSON and their values; every other text is an error.
JsonTexts ==
    ("{}" :> <<>>) @@ ("{\"a\":1}" :> ("a" :> JNum(1))) @@ ("5" :> JNum(5))
from_str(text) == IF text \in DOMAIN JsonTexts THEN Some(JsonTexts[text]) ELSE None

\* The tool_use block of one tool_calls entry.
ToolUseOf(tc) ==
    LET id == unwrap_or(as_str(Get(tc, "id")), "")
        func == Index(tc, "function")
        name == unwrap_or(as_str(Get(func, "name")), "")
        args_str == unwrap_or(as_str(Get(func, "arguments")), "{}")
        input == unwrap_or(from_str(args_str), <<>>)
    IN [type |-> "tool_use", id |-> id, name |-> name, input |-> input]

\* A bug openai_to_anthropic could have: the stop reason is mapped from
\* finish_reason alone.
openai_to_anthropic_ReasonOnly(openai_resp, model) ==
    LET choice == IF as_array(Get(openai_resp, "choices")) # None
                     /\ Len(openai_resp["choices"].arr) > 0
                  THEN openai_resp["choices"].arr[1]
                  ELSE <<>>
        message == Index(choice, "message")
        finish_reason == as_str(Get(choice, "finish_reason"))
        text == as_str(Get(message, "content"))
        text_blocks == IF text # None /\ text[1] # ""
                       THEN <<[type |-> "text", text |-> text[1]]>>
                       ELSE <<>>
        tool_calls == unwrap_or(as_array(Get(message, "tool_calls")), <<>>)
        content == text_blocks \o [i \in DOMAIN tool_calls |-> ToolUseOf(tool_calls[i])]
        stop_reason == IF finish_reason = Some("stop") THEN "end_turn"
                       ELSE IF finish_reason = Some("tool_calls") THEN "tool_use"
                       ELSE IF finish_reason \in {Some("length"), Some("max_tokens")}
                            THEN "max_tokens"
                            ELSE "end_turn"
        usage == Index(openai_resp, "usage")
    IN [id |-> "msg_req", type |-> "message", role |-> "assistant",
        content |-> content, model |-> model, stop_reason |-> stop_reason,
        usage |-> [input_tokens |-> unwrap_or(as_u64(Get(usage, "prompt_tokens")), 0),
                   output_tokens |-> unwrap_or(as_u64(Get(usage, "completion_tokens")), 0)]]

\* openai_to_anthropic: the Anthropic message of a parsed upstream reply.
openai_to_anthropic(openai_resp, model) ==
    LET choice == IF as_array(Get(openai_resp, "choices")) # None
                     /\ Len(openai_resp["choices"].arr) > 0
                  THEN openai_resp["choices"].arr[1]
                  ELSE <<>>
        message == Index(choice, "message")
        finish_reason == as_str(Get(choice, "finish_reason"))
        text == as_str(Get(message, "content"))
        text_blocks == IF text # None /\ text[1] # ""
                       THEN <<[type |-> "text", text |-> text[1]]>>
                       ELSE <<>>
        tool_calls == unwrap_or(as_array(Get(message, "tool_calls")), <<>>)
        content == text_blocks \o [i \in DOMAIN tool_calls |-> ToolUseOf(tool_calls[i])]
        has_tool_use == \E i \in DOMAIN content : content[i].type = "tool_use"
        stop_reason == IF has_tool_use
                       THEN "tool_use"
                       ELSE IF finish_reason = Some("stop") THEN "end_turn"
                       ELSE IF finish_reason = Some("tool_calls") THEN "tool_use"
                       ELSE IF finish_reason \in {Some("length"), Some("max_tokens")}
                            THEN "max_tokens"
                            ELSE "end_turn"
        usage == Index(openai_resp, "usage")
    IN [id |-> "msg_req", type |-> "message", role |-> "assistant",
        content |-> content, model |-> model, stop_reason |-> stop_reason,
        usage |-> [input_tokens |-> unwrap_or(as_u64(Get(usage, "prompt_tokens")), 0),
                   output_tokens |-> unwrap_or(as_u64(Get(usage, "completion_tokens")), 0)]]

\* resp.json(): the parsed body of a reply; the body "{}" is the empty object.
ParsedReply(reply) == IF "json" \in DOMAIN reply THEN reply.json ELSE <<>>

\* The handler after the upstream answered.
AnthropicOnReply(reply, streaming, model) ==
    IF ~is_success(reply.status)
    THEN IF LogPrefixPanics(reply.body)
         THEN Panicked
         ELSE IF ConversationComplete(reply.status, reply.body)
              THEN anthropic_complete(streaming, model)
              ELSE anthropic_error(reply.status, BodyText(reply.body))
    ELSE IF streaming
         THEN [status |-> 200, content_type |-> "text/event-stream",
               body |-> [sse |-> <<MessageStartFor("msg_req", model)>>]]
         ELSE IF ~reply.is_json
              THEN anthropic_error(502, ErrorText("Invalid response: ", "json"))
              ELSE [status |-> 200, content_type |-> "application/json",
                    body |-> [json |-> openai_to_anthropic(ParsedReply(reply), model)]]

\* ---------------------------------------------------------------------------
\* Request dispatcher: the passthrough route
\* ---------------------------------------------------------------------------

\* A bug transform_openai could have: stream is removed with the stripped keys.
transform_openai_StripsStream(b, map) ==
    IF b.kind = "empty"
    THEN <<EmptyBody, FALSE>>
    ELSE IF b.kind = "text"
         THEN <<b, FALSE>>
         ELSE LET streaming == unwrap_or(as_bool(Get(b.obj, "stream")), FALSE)
                  d1 == IF as_str(Get(b.obj, "model")) # None
                        THEN ("model" :> JStr(map_model(b.obj["model"].str, map))) @@ b.obj
                        ELSE b.obj
                  d2 == IF "max_tokens" \in DOMAIN d1
                        THEN Remove(("max_completion_tokens" :> d1["max_tokens"]) @@ d1,
                                    {"max_tokens"})
                        ELSE d1
              IN <<JsonBody(TRUE, Remove(d2, StrippedKeys \cup {"stream"})), streaming>>

\* A bug transform_openai could have: max_tokens is copied to
\* max_completion_tokens and stays in the body.
transform_openai_KeepsMaxTokens(b, map) ==
    IF b.kind = "empty"
    THEN <<EmptyBody, FALSE>>
    ELSE IF b.kind = "text"
         THEN <<b, FALSE>>
         ELSE LET streaming == unwrap_or(as_bool(Get(b.obj, "stream")), FALSE)
                  d1 == IF as_str(Get(b.obj, "model")) # None
                        THEN ("model" :> JStr(map_model(b.obj["model"].str, map))) @@ b.obj
                        ELSE b.obj
                  d2 == IF "max_tokens" \in DOMAIN d1
                        THEN ("max_completion_tokens" :> d1["max_tokens"]) @@ d1
                        ELSE d1
              IN <<JsonBody(TRUE, Remove(d2, StrippedKeys)), streaming>>

\* transform_openai: the rewritten body and the stream flag.
transform_openai(b, map) ==
    IF b.kind = "empty"
    THEN <<EmptyBody, FALSE>>
    ELSE IF b.kind = "text"
         THEN <<b, FALSE>>
         ELSE LET streaming == unwrap_or(as_bool(Get(b.obj, "stream")), FALSE)
                  d1 == IF as_str(Get(b.obj, "model")) # None
                        THEN ("model" :> JStr(map_model(b.obj["model"].str, map))) @@ b.obj
                        ELSE b.obj
                  d2 == IF "max_tokens" \in DOMAIN d1
                        THEN Remove(("max_completion_tokens" :> d1["max_tokens"]) @@ d1,
                                    {"max_tokens"})
                        ELSE d1
              IN <<JsonBody(TRUE, Remove(d2, StrippedKeys)), streaming>>

error_response(code, msg) ==
    [status |-> from_u16(code, 500), content_type |-> "application/json",
     body |-> [json |-> [error |-> msg]]]

synthetic_complete(streaming) ==
    IF streaming
    THEN [status |-> 200, content_type |-> "text/event-stream",
          body |-> [sse |-> <<[choices |-> <<[delta |-> [content |-> "Done."],
                                              finish_reason |-> NULL]>>],
                              [choices |-> <<[delta |-> <<>>,
                                              finish_reason |-> "stop"]>>],
                              [done |-> TRUE]>>]]
    ELSE [status |-> 200, content_type |-> "application/json",
          body |-> [json |-> [choices |->
                                <<[message |-> [role |-> "assistant",
                                                content |-> "Done."],
                                   finish_reason |-> "stop"]>>]]]

\* A bug the passthrough could have: every 4xx status is a candidate.
SyntheticCase_Any4xx(status, error_body) ==
    /\ status \in 400..499
    /\ contains(error_body, FINAL_POSITION) \/ contains(error_body, TOOL_RESULT)

\* The conversation-complete test of the passthrough handler.
SyntheticCase(status, error_body) ==
    /\ status = 400
    /\ contains(error_body, FINAL_POSITION) \/ contains(error_body, TOOL_RESULT)

\* The handler after the upstream answered.
OpenAIOnReply(reply, streaming) ==
    IF ~is_success(reply.status)
    THEN IF SyntheticCase(reply.status, reply.body)
         THEN synthetic_complete(streaming)
         ELSE [status |-> from_u16(reply.status, 502),
               content_type |-> "application/json",
               body |-> [raw |-> reply.body]]
    ELSE IF streaming
         THEN [status |-> 200, content_type |-> "text/event-stream",
               body |-> [raw |-> reply.body]]
         ELSE [status |-> 200, content_type |-> "application/json",
               body |-> [raw |-> reply.body]]

\* ---------------------------------------------------------------------------
\* Request dispatcher: actions
\* ---------------------------------------------------------------------------

\* The router hands a request to its handler; AppState is what main built.
DispatchInit ==
    /\ route \in {"anthropic", "openai"}
    /\ hpc = "received"
    /\ default_model \in DefaultModels
    /\ model_map \in ModelMaps
    /\ body \in (IF route = "anthropic" THEN AnthropicBodies ELSE OpenAIBodies)
    /\ is_streaming = FALSE
    /\ upstream_request = NoRequest
    /\ upstream_reply = NoReply
    /\ response = NoResponse
    /\ SseIdle
    /\ TrIdle
    /\ ParseIdle
    /\ TasksIdle
    /\ RouterIdle
    /\ GuiIdle

Accept(streaming) == IF streaming THEN "text/event-stream" ELSE "application/json"

\* The model the Anthropic handler answers with.
HandlerModel == unwrap_or(as_str(Get(upstream_request.body.obj, "model")), CLAUDE_4_SONNET)

\* anthropic_handler up to the send: a parse error is answered with 400,
\* otherwise the translated request goes upstream.
AnthropicTranslate ==
    /\ route = "anthropic"
    /\ hpc = "received"
    /\ LET r == anthropic_to_openai(body, default_model, model_map) IN
       IF ~r.ok
       THEN /\ response' = anthropic_error(400, ErrorText("", "json"))
            /\ hpc' = "done"
            /\ UNCHANGED <<is_streaming, upstream_request>>
       ELSE /\ is_streaming' = r.is_streaming
            /\ upstream_request' = [body |-> JsonBody(TRUE, r.openai_req),
                                    accept |-> Accept(r.is_streaming)]
            /\ hpc' = "awaiting"
            /\ UNCHANGED response
    /\ UNCHANGED <<route, default_model, model_map, body, upstream_reply>>
    /\ UNCHANGED not_disp_vars

\* send() fails.
AnthropicSendError ==
    /\ route = "anthropic"
    /\ hpc = "awaiting"
    /\ upstream_reply' = SendFailed
    /\ response' = anthropic_error(502, ErrorText("Upstream error: ", "send"))
    /\ hpc' = "done"
    /\ UNCHANGED <<route, default_model, model_map, body, is_streaming, upstream_request>>
    /\ UNCHANGED not_disp_vars

\* The upstream answers.
AnthropicReply ==
    /\ route = "anthropic"
    /\ hpc = "awaiting"
    /\ \E reply \in UpstreamReplies :
         /\ upstream_reply' = reply
         /\ response' = AnthropicOnReply(reply, is_streaming, HandlerModel)
    /\ hpc' = "done"
    /\ UNCHANGED <<route, default_model, model_map, body, is_streaming, upstream_request>>
    /\ UNCHANGED not_disp_vars

\* to_bytes fails: the client's body cannot be read.
OpenAIBodyError ==
    /\ route = "openai"
    /\ hpc = "received"
    /\ response' = error_response(500, ErrorText("", "body"))
    /\ hpc' = "done"
    /\ UNCHANGED <<route, default_model, model_map, body, is_streaming,
                   upstream_request, upstream_reply>>
    /\ UNCHANGED not_disp_vars

\* openai_handler up to the send.
OpenAITransform ==
    /\ route = "openai"
    /\ hpc = "received"
    /\ LET t == transform_openai(body, model_map) IN
       /\ is_streaming' = t[2]
       /\ upstream_request' = [body |-> t[1], accept |-> Accept(t[2])]
    /\ hpc' = "awaiting"
    /\ UNCHANGED <<route, default_model, model_map, body, upstream_reply, response>>
    /\ UNCHANGED not_disp_vars

OpenAISendError ==
    /\ route = "openai"
    /\ hpc = "awaiting"
    /\ upstream_reply' = SendFailed
    /\ response' = error_response(502, ErrorText("", "send"))
    /\ hpc' = "done"
    /\ UNCHANGED <<route, default_model, model_map, body, is_streaming, upstream_request>>
    /\ UNCHANGED not_disp_vars

OpenAIReply ==
    /\ route = "openai"
    /\ hpc = "awaiting"
    /\ \E reply \in UpstreamReplies :
         /\ upstream_reply' = reply
         /\ response' = OpenAIOnReply(reply, is_streaming)
    /\ hpc' = "done"
    /\ UNCHANGED <<route, default_model, model_map, body, is_streaming, upstream_request>>
    /\ UNCHANGED not_disp_vars

DispatchNext ==
    \/ AnthropicTranslate
    \/ AnthropicSendError
    \/ AnthropicReply
    \/ OpenAIBodyError
    \/ OpenAITransform
    \/ OpenAISendError
    \/ OpenAIReply

DispatchSpec == DispatchInit /\ [][DispatchNext]_vars

\* ---------------------------------------------------------------------------
\* Properties of the request dispatcher
\* ---------------------------------------------------------------------------

\* The model name and the stream flag of the client's request.
ClientModel == IF body.kind = "json" THEN as_str(Get(body.obj, "model")) ELSE None
ClientStream ==
    IF body.kind = "json" THEN unwrap_or(as_bool(Get(body.obj, "stream")), FALSE) ELSE FALSE

\* The model name sent upstream.
SentModel ==
    IF upstream_request # NoRequest /\ upstream_request.body.kind = "json"
    THEN as_str(Get(upstream_request.body.obj, "model"))
    ELSE None

Answered(r) == hpc = "done" /\ route = r
Has200 == "status" \in DOMAIN response /\ response.status = 200

\* The model field of a 200 response of the Anthropic route: of message_start
\* when streamed, of the message otherwise.
ResponseModel ==
    IF "sse" \in DOMAIN response.body
    THEN response.body.sse[1].message.model
    ELSE response.body.json.model

\* C14 (as claimed): the model field of the Anthropic unary response and of
\* the streamed message_start is the model name the client sent, also for
\* names the model resolver maps to a different upstream name.
C14_ResponseModelName ==
    (Answered("anthropic") /\ Has200 /\ ClientModel # None) =>
        ResponseModel = ClientModel[1]

\* C15: a requested model name that is a key of the model map is resolved to
\* its mapped value, whatever the substring rules say for the name.
C15_ExplicitMapFirst ==
    (hpc # "received" /\ upstream_request # NoRequest
     /\ ClientModel # None /\ ClientModel[1] \in DOMAIN model_map) =>
        SentModel = Some(model_map[ClientModel[1]])

\* C15 witness: a request was sent upstream with the mapped value of a name
\* for which the substring rules give another name.
C15_Witness ==
    /\ hpc = "awaiting"
    /\ ClientModel = Some(CLAUDE_3_5_HAIKU)
    /\ CLAUDE_3_5_HAIKU \in DOMAIN model_map
    /\ ModelHeuristics(CLAUDE_3_5_HAIKU) = CLAUDE_HAIKU_4_5
    /\ SentModel = Some(CLAUDE_4_OPUS)

\* A passthrough body with none of the stripped keys, no max_tokens and a
\* model that is one of the upstream names.
PlainUpstreamBody ==
    /\ body.kind = "json"
    /\ DOMAIN body.obj \cap (StrippedKeys \cup {"max_tokens"}) = {}
    /\ ClientModel # None
    /\ ClientModel[1] \in UpstreamNames

\* transform_openai applied to what it sent gives the same body and flag.
SecondTransformSame ==
    transform_openai(upstream_request.body, model_map)
        = <<upstream_request.body, is_streaming>>

\* C16 (as claimed): for a body with none of the stripped keys, no max_tokens
\* and a model already in upstream form, transform_openai applied to its own
\* output yields the same body and the same streaming flag.
C16_PassthroughIdempotent ==
    (route = "openai" /\ upstream_request # NoRequest /\ PlainUpstreamBody) =>
        SecondTransformSame

\* C16 (amended): the same for a model in upstream form that is not a key of
\* the model map.
C16_IdempotentUnlessRemapped ==
    (route = "openai" /\ upstream_request # NoRequest /\ PlainUpstreamBody
     /\ ClientModel[1] \notin DOMAIN model_map) =>
        SecondTransformSame

\* C16 witness: a streaming request whose body was not in serde_json's form
\* went upstream rewritten, with a model map that holds other names.
C16_Witness ==
    /\ route = "openai"
    /\ hpc = "awaiting"
    /\ PlainUpstreamBody
    /\ ~body.canonical
    /\ model_map # <<>>
    /\ ClientModel[1] \notin DOMAIN model_map
    /\ is_streaming
    /\ SecondTransformSame

\* The upstream answered with an error status.
UpstreamError == upstream_reply # NoReply /\ upstream_reply # SendFailed
                 /\ ~is_success(upstream_reply.status)

\* The body holds one of the two markers, in any letter case / as written.
MarkedAnyCase(text) ==
    contains(to_lowercase(text), FINAL_POSITION) \/ contains(to_lowercase(text), TOOL_RESULT)
MarkedExact(text) == contains(text, FINAL_POSITION) \/ contains(text, TOOL_RESULT)

\* The Anthropic "Done." message, unary or streamed.
IsDoneMessage(resp, streaming) ==
    /\ "status" \in DOMAIN resp
    /\ resp.status = 200
    /\ IF streaming
       THEN /\ "sse" \in DOMAIN resp.body
            /\ Len(resp.body.sse) = 6
            /\ resp.body.sse[1].type = "message_start"
            /\ resp.body.sse[2] = [type |-> "content_block_start", index |-> 0,
                                   content_block |-> [type |-> "text", text |-> ""]]
            /\ resp.body.sse[3] = [type |-> "content_block_delta", index |-> 0,
                                   delta |-> [type |-> "text_delta", text |-> "Done."]]
            /\ resp.body.sse[4] = [type |-> "content_block_stop", index |-> 0]
            /\ resp.body.sse[5] = [type |-> "message_delta", stop_reason |-> "end_turn"]
            /\ resp.body.sse[6] = [type |-> "message_stop"]
       ELSE /\ "json" \in DOMAIN resp.body
            /\ resp.body.json.type = "message"
            /\ resp.body.json.content = <<[type |-> "text", text |-> "Done."]>>
            /\ resp.body.json.stop_reason = "end_turn"

\* C17 (as claimed): when the upstream answers 400 with a body that holds, in
\* any letter case, "final position" or "tool_result", the client of the
\* Anthropic route receives HTTP 200 with the "Done." message, unary or
\* streamed as it asked.
C17_ConversationComplete ==
    (Answered("anthropic") /\ UpstreamError /\ upstream_reply.status = 400
     /\ MarkedAnyCase(upstream_reply.body)) =>
        IsDoneMessage(response, ClientStream)

\* The same for the bodies whose logged prefix ends at a character boundary.
C17_CompleteUnlessLogPanics ==
    (Answered("anthropic") /\ UpstreamError /\ upstream_reply.status = 400
     /\ MarkedAnyCase(upstream_reply.body)
     /\ ~LogPrefixPanics(upstream_reply.body)) =>
        IsDoneMessage(response, ClientStream)

\* The OpenAI "Done." completion, unary or streamed.
IsSyntheticDone(resp, streaming) ==
    /\ resp.status = 200
    /\ IF streaming
       THEN /\ "sse" \in DOMAIN resp.body
            /\ Len(resp.body.sse) = 3
            /\ resp.body.sse[1].choices[1].delta.content = "Done."
            /\ resp.body.sse[2].choices[1].finish_reason = "stop"
            /\ resp.body.sse[3] = [done |-> TRUE]
       ELSE /\ "json" \in DOMAIN resp.body
            /\ resp.body.json.choices[1].message.content = "Done."
            /\ resp.body.json.choices[1].finish_reason = "stop"

\* The upstream's status and body, forwarded.
IsForwarded(resp, reply) ==
    /\ resp.status = reply.status
    /\ resp.body = [raw |-> reply.body]

\* C18 (as claimed): for every upstream 4xx status whose body holds "final
\* position" or "tool_result" the passthrough handler answers with the
\* synthesized OpenAI "Done." completion, unary or streamed as requested;
\* every other upstream error is forwarded with the upstream status and body.
C18_GenericComplete ==
    (Answered("openai") /\ UpstreamError) =>
        IF upstream_reply.status \in 400..499 /\ MarkedExact(upstream_reply.body)
        THEN IsSyntheticDone(response, ClientStream)
        ELSE IsForwarded(response, upstream_reply)

\* C18 (amended): the synthesized completion is the answer to status 400 with
\* such a body; every other upstream error, a 4xx other than 400 with such a
\* body included, is forwarded with the upstream status and body.
C18_GenericCompleteOn400 ==
    (Answered("openai") /\ UpstreamError) =>
        IF upstream_reply.status = 400 /\ MarkedExact(upstream_reply.body)
        THEN IsSyntheticDone(response, ClientStream)
        ELSE IsForwarded(response, upstream_reply)

\* C18 witness: a streaming passthrough request answered 400 "tool_result"
\* by the upstream got the streamed "Done." completion.
C18_Witness ==
    /\ Answered("openai")
    /\ UpstreamError
    /\ upstream_reply.status = 400
    /\ upstream_reply.body = TOOL_RESULT
    /\ ClientStream
    /\ IsSyntheticDone(response, TRUE)

\* The Anthropic error envelope with this status and message.
IsEnvelope(resp, status, msg) ==
    /\ "status" \in DOMAIN resp
    /\ resp.status = status
    /\ resp.body = [json |-> [type |-> "error",
                              error |-> [type |-> "api_error", message |-> msg]]]

\* C19 (as claimed): on the Anthropic route an invalid JSON body yields 400
\* with the error envelope and no upstream request; a failed upstream
\* connection yields 502 with the envelope; an upstream non-2xx response that
\* is not the conversation-complete case yields the upstream's status with
\* the upstream body wrapped in the envelope; and every request ends in one
\* of these outcomes or a 200 response.
C19_ErrorClassification ==
    Answered("anthropic") =>
        /\ body.kind # "json" =>
               /\ IsEnvelope(response, 400, ErrorText("", "json"))
               /\ upstream_request = NoRequest
        /\ upstream_reply = SendFailed =>
               IsEnvelope(response, 502, ErrorText("Upstream error: ", "send"))
        /\ (UpstreamError
            /\ ~(upstream_reply.status = 400 /\ MarkedAnyCase(upstream_reply.body))) =>
               IsEnvelope(response, upstream_reply.status, BodyText(upstream_reply.body))
        /\ "status" \in DOMAIN response
        /\ \/ response.status = 200
           \/ /\ "json" \in DOMAIN response.body
              /\ response.body.json.type = "error"
              /\ \/ response.status \in {400, 502}
                 \/ UpstreamError /\ response.status = upstream_reply.status

\* The same for the error bodies whose logged prefix ends at a character
\* boundary.
C19_ClassifiedUnlessLogPanics ==
    (UpstreamError => ~LogPrefixPanics(upstream_reply.body)) => C19_ErrorClassification

\* ---------------------------------------------------------------------------
\* The finish path and the argument fragments of the transducer
\* ---------------------------------------------------------------------------

\* The stop_reason the finish path owes to a finish_reason.
ExpectedStopReason(tool_opened, reason) ==
    IF tool_opened \/ reason = "tool_calls"
    THEN "tool_use"
    ELSE IF reason = "stop"
         THEN "end_turn"
         ELSE IF reason = "length" \/ reason = "max_tokens"
              THEN "max_tokens"
              ELSE "end_turn"

LastChunk == consumed'[Len(consumed')]
ReadsChunk == Len(consumed') = Len(consumed) + 1

\* C22: a chunk that carries a finish_reason makes the transducer emit, as
\* the last event of the chunk, a message_delta whose stop_reason is tool_use
\* if a tool call was opened in the stream so far or the reason is
\* "tool_calls", and otherwise end_turn for "stop", max_tokens for "length"
\* or "max_tokens" and end_turn for any other reason.
C22_FinishStopReason ==
    [][(ReadsChunk /\ LastChunk.finish_reason # NULL) =>
           /\ Len(out') > Len(out)
           /\ out'[Len(out')] =
                  [type |-> "message_delta",
                   stop_reason |-> ExpectedStopReason(Opens(consumed') # <<>>,
                                                      LastChunk.finish_reason)]]_vars

\* C22 witness: finish_reason "stop" after an opened tool call gave tool_use.
C22_Witness ==
    /\ consumed = <<OpenChunk("A", "x"), FinishChunk("stop")>>
    /\ out[Len(out)] = MessageDelta("tool_use")

\* C24 (as claimed): once message_delta has been emitted no content_block_start,
\* content_block_delta or content_block_stop is emitted for the rest of the
\* response, also when the upstream sends further chunks after the one that
\* carried finish_reason, and message_delta is immediately followed by
\* message_stop.
C24_NothingAfterFinalDelta ==
    \A i \in DOMAIN out :
        out[i].type = "message_delta" =>
            /\ \A j \in (i + 1)..Len(out) :
                   ~(IsStart(out[j]) \/ IsDelta(out[j]) \/ IsStop(out[j]))
            /\ i < Len(out) => out[i + 1].type = "message_stop"

\* The tool-call openings and the non-empty argument fragments of one
\* tool_calls entry, of a chunk and of the chunks, in arrival order.
EntryItems(tc) ==
    (IF NonEmpty(tc.id) # NULL /\ NonEmpty(tc.name) # NULL
     THEN <<[kind |-> "open"]>>
     ELSE <<>>)
    \o (IF tc.arguments # NULL /\ tc.arguments # ""
        THEN <<[kind |-> "args", args |-> tc.arguments]>>
        ELSE <<>>)

RECURSIVE EntriesItems(_)
EntriesItems(tcs) ==
    IF tcs = <<>> THEN <<>> ELSE EntryItems(Head(tcs)) \o EntriesItems(Tail(tcs))

RECURSIVE ToolItems(_)
ToolItems(cs) ==
    IF cs = <<>> THEN <<>> ELSE EntriesItems(Head(cs).tool_calls) \o ToolItems(Tail(cs))

\* The fragments that have an owner, each with the ordinal of the tool call
\* opened last before it.
RECURSIVE OwnedFragments(_, _)
OwnedFragments(items, opened) ==
    IF items = <<>>
    THEN <<>>
    ELSE IF Head(items).kind = "open"
         THEN OwnedFragments(Tail(items), opened + 1)
         ELSE (IF opened >= 1 THEN << <<opened, Head(items).args>> >> ELSE <<>>)
              \o OwnedFragments(Tail(items), opened)

IsToolStart(e) == IsStart(e) /\ e.content_block.type = "tool_use"
IsJsonDelta(e) == IsDelta(e) /\ e.delta.type = "input_json_delta"
ToolStartsBefore(o, j) == {i \in 1..(j - 1) : IsToolStart(o[i])}

\* The input_json_delta events, each with the ordinal of the tool_use block
\* started last before it.
EmittedFragments(o) ==
    LET at == SelectSeq([j \in DOMAIN o |-> j], LAMBDA j : IsJsonDelta(o[j]))
    IN [k \in DOMAIN at |->
           <<Cardinality(ToolStartsBefore(o, at[k])), o[at[k]].delta.partial_json>>]

\* Each input_json_delta carries the index of the tool_use block started last
\* before it.
UnderLatestTool(o) ==
    \A j \in DOMAIN o :
        IsJsonDelta(o[j]) =>
            /\ ToolStartsBefore(o, j) # {}
            /\ LET last == CHOOSE i \in ToolStartsBefore(o, j) :
                               \A i2 \in ToolStartsBefore(o, j) : i2 <= i
               IN o[j].index = o[last].index

sse_locals == <<out, had_text_content, final_events_sent, tool_indices,
                current_tool_id, last_content_index, tool_count>>

\* C25: every non-empty function.arguments fragment is emitted as an
\* input_json_delta under the index of the tool call opened last, in arrival
\* order; a fragment that arrives before any tool call was opened produces no
\* event and changes no transducer state.
C25_ArgumentAttribution ==
    /\ [](/\ EmittedFragments(out) = OwnedFragments(ToolItems(consumed), 0)
          /\ UnderLatestTool(out))
    /\ [][(ReadsChunk /\ Opens(consumed') = <<>>
           /\ LastChunk.content = NULL /\ LastChunk.finish_reason = NULL) =>
              UNCHANGED sse_locals]_vars

\* C25 witness: fragments of two tool calls, one fragment ahead of both.
C25_Witness ==
    /\ Len(consumed) = 4
    /\ consumed[1] = Chunk(NULL, <<TC("A", NULL, "{}")>>, NULL)
    /\ NoFinishSeen(consumed)
    /\ Len(Opens(consumed)) > 1
    /\ Len(EmittedFragments(out)) = 2
    /\ EmittedFragments(out)[1][1] = 1
    /\ EmittedFragments(out)[2][1] > 1


\* ---------------------------------------------------------------------------
\* Properties of the model resolution and of the passthrough rewrite
\* ---------------------------------------------------------------------------

\* The name the handler resolves: the client's, or on the Anthropic route the
\* configured default when the body names none.
ResolvedName ==
    IF ClientModel # None
    THEN ClientModel
    ELSE IF route = "anthropic" /\ body.kind = "json" THEN Some(default_model) ELSE None

\* The substring rules as the specification lists them: rule k of a lowercased
\* name, and the upstream name it gives.
RuleMatches(m, k) ==
    CASE k = 1 -> contains(m, PAT_OPUS_4_5) \/ contains(m, PAT_4_5_OPUS)
      [] k = 2 -> contains(m, PAT_4_OPUS) \/ contains(m, PAT_OPUS_4)
      [] k = 3 -> contains(m, PAT_HAIKU)
      [] k = 4 -> contains(m, PAT_3_5) /\ contains(m, PAT_SONNET)
RuleNames == <<CLAUDE_OPUS_4_5, CLAUDE_4_OPUS, CLAUDE_HAIKU_4_5, CLAUDE_3_5_SONNET>>
MatchingRules(name) == {k \in DOMAIN RuleNames : RuleMatches(to_lowercase(name), k)}
FirstRuleName(name) ==
    IF MatchingRules(name) = {}
    THEN CLAUDE_4_SONNET
    ELSE RuleNames[CHOOSE k \in MatchingRules(name) : \A j \in MatchingRules(name) : k <= j]

\* C27: a resolved name that is not a key of the model map goes upstream as
\* the name of the first substring rule its lowercased form matches, in the
\* priority opus-4-5 or 4-5-opus, 4-opus or opus-4, haiku, 3-5 with sonnet,
\* and as "claude-4-sonnet" when no rule matches; the name sent is one of the
\* five upstream names, and every resolution yields a name.
C27_HeuristicPriority ==
    (upstream_request # NoRequest /\ ResolvedName # None
     /\ ResolvedName[1] \notin DOMAIN model_map) =>
        /\ SentModel # None
        /\ SentModel = Some(FirstRuleName(ResolvedName[1]))
        /\ SentModel[1] \in UpstreamNames

\* C27 witness: a mixed-case name that matches the haiku rule and the rule of
\* 3-5 with sonnet went upstream as "claude-haiku-4-5", under a model map
\* that holds other names.
C27_Witness ==
    /\ hpc = "awaiting"
    /\ ClientModel = Some(SONNET_3_5_HAIKU)
    /\ model_map # <<>>
    /\ MatchingRules(SONNET_3_5_HAIKU) = {3, 4}
    /\ SentModel = Some(CLAUDE_HAIKU_4_5)

\* C28 (as claimed): when the Anthropic request has no model field, the model
\* sent upstream is the configured default model, for every configured value.
C28_DefaultModelSent ==
    (route = "anthropic" /\ upstream_request # NoRequest
     /\ "model" \notin DOMAIN body.obj) =>
        SentModel = Some(default_model)

\* The body transform_openai is claimed to write for a JSON object.
RewrittenKeys(obj) ==
    (DOMAIN obj \ (StrippedKeys \cup {"max_tokens"}))
    \cup (IF "max_tokens" \in DOMAIN obj THEN {"max_completion_tokens"} ELSE {})
RewrittenValue(obj, key, map) ==
    IF key = "model" /\ "str" \in DOMAIN obj[key]
    THEN JStr(map_model(obj[key].str, map))
    ELSE IF key = "max_completion_tokens" /\ "max_tokens" \in DOMAIN obj
         THEN obj["max_tokens"]
         ELSE obj[key]

\* C29: the passthrough sends, for a JSON object body, the object with model
\* replaced by its resolved name, the value of max_tokens under
\* max_completion_tokens and no max_tokens, none of the six stripped keys, and
\* every other key with its value; an empty body or one that is not JSON goes
\* upstream as it is, with the streaming flag false.
C29_PassthroughRewrite ==
    (route = "openai" /\ upstream_request # NoRequest) =>
        IF body.kind = "json"
        THEN /\ upstream_request.body.kind = "json"
             /\ DOMAIN upstream_request.body.obj = RewrittenKeys(body.obj)
             /\ \A key \in RewrittenKeys(body.obj) :
                    upstream_request.body.obj[key]
                        = RewrittenValue(body.obj, key, model_map)
        ELSE /\ upstream_request.body = body
             /\ ~is_streaming

\* C29 witness: a body with a mapped model, max_tokens, max_completion_tokens,
\* seed and temperature went upstream.
C29_Witness ==
    /\ route = "openai"
    /\ hpc = "awaiting"
    /\ body.kind = "json"
    /\ {"max_tokens", "max_completion_tokens", "seed", "temperature", "stream"}
            \subseteq DOMAIN body.obj
    /\ ClientModel = Some(GPT_4O)
    /\ GPT_4O \in DOMAIN model_map
    /\ upstream_request.body.obj["max_completion_tokens"] = JNum(100)
    /\ upstream_request.body.obj["temperature"] = JNum(1)
    /\ "seed" \notin DOMAIN upstream_request.body.obj


\* ---------------------------------------------------------------------------
\* The validator alone, on any OpenAI message list
\* ---------------------------------------------------------------------------

\* The messages of the lists: plain user and assistant messages, assistant
\* messages with one and with two tool calls, and tool messages.
ListAlphabet ==
    { PlainMessage("user", "q"),
      PlainMessage("assistant", "a"),
      AssistantCalls(<<ToolCall("T1", "x", "{}")>>),
      AssistantCalls(<<ToolCall("T1", "x", "{}"), ToolCall("T2", "y", "{}")>>),
      ToolMessage("T1", "x", "r"),
      ToolMessage("T2", "y", "r") }

MessageLists == UNION {[1..n -> ListAlphabet] : n \in 0..MaxListLen}

ValidatorInit ==
    /\ tpc = "validate"
    /\ req_messages = <<>>
    /\ messages \in MessageLists
    /\ pending_tool_calls = <<>>
    /\ pending_tool_call_ids = <<>>
    /\ tool_id_to_name = EmptyMap
    /\ validation = "none"
    /\ SseIdle
    /\ DispIdle
    /\ ParseIdle
    /\ TasksIdle
    /\ RouterIdle
    /\ GuiIdle

\* validate_tool_conversation(&messages)
Validate ==
    /\ tpc = "validate"
    /\ tpc' = "done"
    /\ validation' = validate_tool_conversation(messages)
    /\ UNCHANGED <<req_messages, messages, pending_tool_calls,
                   pending_tool_call_ids, tool_id_to_name>>
    /\ UNCHANGED not_tr_vars

ValidatorSpec == ValidatorInit /\ [][Validate]_vars

\* A tool message for the id follows message i before the next assistant
\* message.
AnsweredBeforeNextAssistant(msgs, i, id) ==
    \E j \in (i + 1)..Len(msgs) :
        /\ msgs[j].role = "tool"
        /\ msgs[j].tool_call_id = id
        /\ \A k \in (i + 1)..(j - 1) : msgs[k].role # "assistant"

CallEntries ==
    { ("id" :> JStr("T1"))
        @@ ("function" :> (("name" :> JStr("x")) @@ ("arguments" :> JStr("{\"a\":1}")))),
      ("id" :> JStr("T2")) @@ ("function" :> ("name" :> JStr("y"))),
      ("id" :> JStr("T3"))
        @@ ("function" :> (("name" :> JStr("z")) @@ ("arguments" :> JStr("{")))),
      <<>>,
      ("id" :> JStr("T5"))
        @@ ("function" :> (("name" :> JStr("x")) @@ ("arguments" :> JStr("5")))) }

CallLists == UNION {[1..n -> CallEntries] : n \in 0..MaxCalls}

ReplyMessages ==
    { Field("content", c) @@ Field("tool_calls", t) :
        c \in {None, Some(JNull), Some(JStr("")), Some(JStr("hi"))},
        t \in {None} \cup {Some(JArr(l)) : l \in CallLists} }

FinishValues ==
    {None, Some(JNull)}
    \cup {Some(JStr(r)) : r \in {"stop", "tool_calls", "length", "max_tokens", "content_filter"}}

UsageValues ==
    {None, Some(("prompt_tokens" :> JNum(3)) @@ ("completion_tokens" :> JNum(5)))}

\* The parsed bodies of a 200 reply to a request that does not stream.
OpenAIResponses ==
    { <<>> }
    \cup { ("choices" :> JArr(<<("message" :> msg) @@ Field("finish_reason", f)>>))
             @@ Field("usage", u) :
            msg \in ReplyMessages, f \in FinishValues, u \in UsageValues }

UnaryReplies ==
    { [kind |-> "reply", status |-> 200, is_json |-> TRUE, json |-> r] :
        r \in OpenAIResponses }

\* The handler awaits the reply to a translated request that does not stream.
UnaryInit ==
    /\ route = "anthropic"
    /\ hpc = "awaiting"
    /\ default_model = CLAUDE_4_SONNET
    /\ model_map = <<>>
    /\ body = JsonBody(TRUE, ("model" :> JStr(CLAUDE_SONNET_4_5)))
    /\ is_streaming = FALSE
    /\ upstream_request =
         [body |-> JsonBody(TRUE, anthropic_to_openai(body, default_model,
                                                      model_map).openai_req),
          accept |-> Accept(FALSE)]
    /\ upstream_reply = NoReply
    /\ response = NoResponse
    /\ SseIdle
    /\ TrIdle
    /\ ParseIdle
    /\ TasksIdle
    /\ RouterIdle
    /\ GuiIdle

\* The upstream answers 200 with a JSON body.
AnthropicUnaryReply ==
    /\ route = "anthropic"
    /\ hpc = "awaiting"
    /\ \E reply \in UnaryReplies :
         /\ upstream_reply' = reply
         /\ response' = AnthropicOnReply(reply, is_streaming, HandlerModel)
    /\ hpc' = "done"
    /\ UNCHANGED <<route, default_model, model_map, body, is_streaming, upstream_request>>
    /\ UNCHANGED not_disp_vars

UnarySpec == UnaryInit /\ [][AnthropicUnaryReply]_vars

\* The message and the tool_calls of the reply, the content of the answer.
ReplyChoice ==
    IF "choices" \in DOMAIN upstream_reply.json
    THEN upstream_reply.json["choices"].arr[1]
    ELSE <<>>
ReplyMessage == IF "message" \in DOMAIN ReplyChoice THEN ReplyChoice["message"] ELSE <<>>
ReplyText ==
    IF "content" \in DOMAIN ReplyMessage /\ "str" \in DOMAIN ReplyMessage["content"]
    THEN ReplyMessage["content"].str
    ELSE ""
ReplyCalls ==
    IF "tool_calls" \in DOMAIN ReplyMessage THEN ReplyMessage["tool_calls"].arr ELSE <<>>
ReplyFinish ==
    IF "finish_reason" \in DOMAIN ReplyChoice /\ "str" \in DOMAIN ReplyChoice["finish_reason"]
    THEN ReplyChoice["finish_reason"].str
    ELSE NULL
AnswerContent == response.body.json.content
TextBlocks == IF ReplyText = "" THEN 0 ELSE 1

\* The arguments of an entry are missing or not valid JSON.
NoJsonArguments(tc) ==
    \/ "function" \notin DOMAIN tc
    \/ "arguments" \notin DOMAIN tc["function"]
    \/ tc["function"]["arguments"].str \notin DOMAIN JsonTexts

\* The stop reason of an answer without tool_use block.
MappedFinish(reason) ==
    CASE reason = "stop" -> "end_turn"
      [] reason = "tool_calls" -> "tool_use"
      [] reason \in {"length", "max_tokens"} -> "max_tokens"
      [] OTHER -> "end_turn"

\* C23: the content of the unary answer is the text block, present only when
\* message.content is a non-empty string, followed by one tool_use block per
\* tool_calls entry in order, whose input is {} when the arguments are missing
\* or not valid JSON; stop_reason is tool_use whenever a tool_use block is
\* present, whatever the finish_reason, and otherwise the mapped finish_reason
\* with end_turn for a missing or unknown reason.
C23_UnaryTranslation ==
    (hpc = "done" /\ Has200 /\ "json" \in DOMAIN upstream_reply) =>
        /\ Len(AnswerContent) = TextBlocks + Len(ReplyCalls)
        /\ TextBlocks = 1 => AnswerContent[1] = [type |-> "text", text |-> ReplyText]
        /\ \A i \in DOMAIN ReplyCalls :
              LET block == AnswerContent[TextBlocks + i]
                  tc == ReplyCalls[i]
              IN /\ block.type = "tool_use"
                 /\ block.id = (IF "id" \in DOMAIN tc THEN tc["id"].str ELSE "")
                 /\ NoJsonArguments(tc) => block.input = <<>>
                 /\ ~NoJsonArguments(tc) =>
                        block.input = JsonTexts[tc["function"]["arguments"].str]
        /\ response.body.json.stop_reason =
              (IF ReplyCalls # <<>> THEN "tool_use" ELSE MappedFinish(ReplyFinish))

\* C23 witness: a reply with text, a call with JSON arguments and a call with
\* arguments that are not JSON, finished with "stop", was answered with three
\* blocks and stop_reason tool_use.
C23_Witness ==
    /\ hpc = "done"
    /\ "json" \in DOMAIN upstream_reply
    /\ ReplyText = "hi"
    /\ Len(ReplyCalls) = 2
    /\ ~NoJsonArguments(ReplyCalls[1])
    /\ NoJsonArguments(ReplyCalls[2])
    /\ "function" \in DOMAIN ReplyCalls[2]
    /\ "arguments" \in DOMAIN ReplyCalls[2]["function"]
    /\ ReplyFinish = "stop"
    /\ Len(AnswerContent) = 3
    /\ AnswerContent[3].input = <<>>
    /\ response.body.json.stop_reason = "tool_use"


\* ---------------------------------------------------------------------------
\* The upstream byte stream: network chunks, the buffer and its blocks
\* ---------------------------------------------------------------------------

\* The line feed, and the bytes of a character of two UTF-8 bytes.
LF == "LF"
LEAD_BYTE == "0xC3"
CONT_BYTE == "0xA9"
REPLACEMENT == "U+FFFD"

DATA_PREFIX == <<"d", "a", "t", "a", ":", " ">>
DONE == <<"[", "D", "O", "N", "E", "]">>
EVENT_LINE == <<"e", "v", "e", "n", "t", ":", " ", "x">>
DELIMITER == <<LF, LF>>

\* JSON documents of the upstream, each written as one character, and what
\* serde_json::from_str makes of a text: the chunk of a document, an error
\* for every other text. The document with an accented letter is written as
\* its opening, the two bytes of the letter and its closing; decoded, it holds
\* the letter, or two U+FFFD when the bytes were decoded one by one.
P_TEXT == <<"{text}">>
P_OPEN == <<"{open}">>
P_BAD == <<"{">>
P_ACCENT_BYTES == <<"{text:", LEAD_BYTE, CONT_BYTE, "}">>
P_ACCENT == <<"{text:", E_ACUTE, "}">>
P_ACCENT_LOST == <<"{text:", REPLACEMENT, REPLACEMENT, "}">>
PayloadTexts ==
    (P_TEXT :> TextChunk("hi")) @@ (P_OPEN :> OpenChunk("A", "x"))
    @@ (P_ACCENT :> TextChunk(E_ACUTE))
    @@ (P_ACCENT_LOST :> TextChunk(REPLACEMENT \o REPLACEMENT))
chunk_data(data) == IF data \in DOMAIN PayloadTexts THEN Some(PayloadTexts[data]) ELSE None

\* String::from_utf8_lossy: a complete two-byte character is decoded, a lead
\* or continuation byte on its own becomes U+FFFD.
RECURSIVE from_utf8_lossy(_)
from_utf8_lossy(bytes) ==
    IF bytes = <<>>
    THEN <<>>
    ELSE IF Head(bytes) = LEAD_BYTE /\ Len(bytes) > 1 /\ bytes[2] = CONT_BYTE
         THEN <<E_ACUTE>> \o from_utf8_lossy(SubSeq(bytes, 3, Len(bytes)))
         ELSE IF Head(bytes) \in {LEAD_BYTE, CONT_BYTE}
              THEN <<REPLACEMENT>> \o from_utf8_lossy(Tail(bytes))
              ELSE <<Head(bytes)>> \o from_utf8_lossy(Tail(bytes))

\* str::starts_with and str::find (the first position, from 0, or None).
starts_with(text, pat) == Len(text) >= Len(pat) /\ SubSeq(text, 1, Len(pat)) = pat
Occurrences(text, pat) ==
    {i \in 0..(Len(text) - Len(pat)) : SubSeq(text, i + 1, i + Len(pat)) = pat}
find(text, pat) ==
    IF Occurrences(text, pat) = {}
    THEN None
    ELSE Some(CHOOSE i \in Occurrences(text, pat) : \A j \in Occurrences(text, pat) : i <= j)

\* One block cut from the buffer: skipped unless it starts with "data: ",
\* skipped when the rest is [DONE] or no JSON, else handled as a chunk.
HandleBlock(p, line) ==
    IF ~starts_with(line, DATA_PREFIX)
    THEN p
    ELSE LET data == SubSeq(line, Len(DATA_PREFIX) + 1, Len(line)) IN
         IF data = DONE
         THEN p
         ELSE IF chunk_data(data) = None
              THEN p
              ELSE [p EXCEPT !.s = HandleChunk(p.s, chunk_data(data)[1]),
                             !.consumed = Append(p.consumed, chunk_data(data)[1])]

\* while let Some(pos) = buffer.find("\n\n")
RECURSIVE DrainBuffer(_)
DrainBuffer(p) ==
    LET pos == find(p.buffer, DELIMITER) IN
    IF pos = None
    THEN p
    ELSE DrainBuffer(HandleBlock([p EXCEPT !.buffer = SubSeq(p.buffer, pos[1] + 3,
                                                             Len(p.buffer))],
                                 SubSeq(p.buffer, 1, pos[1])))

\* The blocks the upstream writes: a data line with a document, with [DONE]
\* and with text that is no JSON, a data line after an event line, and two
\* data lines.
DataLine(payload) == DATA_PREFIX \o payload
BlockAlphabet ==
    { DataLine(P_TEXT),
      DataLine(P_OPEN),
      DataLine(DONE),
      DataLine(P_BAD),
      DataLine(P_ACCENT_BYTES),
      EVENT_LINE \o <<LF>> \o DataLine(P_TEXT),
      DataLine(P_OPEN) \o <<LF>> \o DataLine(P_TEXT) }

RECURSIVE Terminated(_)
Terminated(blocks) ==
    IF blocks = <<>>
    THEN <<>>
    ELSE Head(blocks) \o DELIMITER \o Terminated(Tail(blocks))

WireStreams ==
    {Terminated(blocks) : blocks \in UNION {[1..n -> BlockAlphabet] : n \in 0..MaxEvents}}

\* The stream generator starts with an empty buffer.
ParseInit ==
    /\ pc = "start"
    /\ scenario = "wire"
    /\ consumed = <<>>
    /\ ended_by = "none"
    /\ out = <<>>
    /\ had_text_content = FALSE
    /\ final_events_sent = FALSE
    /\ tool_indices = EmptyMap
    /\ current_tool_id = NULL
    /\ last_content_index = NothingStarted
    /\ tool_count = 0
    /\ wire \in WireStreams
    /\ delivered = 0
    /\ buffer = <<>>
    /\ TrIdle
    /\ DispIdle
    /\ TasksIdle
    /\ RouterIdle
    /\ GuiIdle

\* byte_stream.next() returns the next bytes, however many the network
\* delivers at once; they are appended to the buffer and the buffer is
\* drained of its complete blocks.
ReadBytes ==
    /\ pc = "reading"
    /\ scenario = "wire"
    /\ \E n \in 1..(Len(wire) - delivered) :
         LET bytes == SubSeq(wire, delivered + 1, delivered + n)
             p == DrainBuffer([s |-> St, consumed |-> consumed,
                               buffer |-> buffer \o from_utf8_lossy(bytes)])
         IN /\ delivered' = delivered + n
            /\ buffer' = p.buffer
            /\ consumed' = p.consumed
            /\ out' = p.s.out
            /\ had_text_content' = p.s.had_text_content
            /\ final_events_sent' = p.s.final_events_sent
            /\ tool_indices' = p.s.tool_indices
            /\ current_tool_id' = p.s.current_tool_id
            /\ last_content_index' = p.s.last_content_index
            /\ tool_count' = p.s.tool_count
    /\ UNCHANGED <<pc, scenario, ended_by, wire>>
    /\ UNCHANGED <<tr_vars, disp_vars, conc_vars, router_vars, gui_vars>>

ParseNext ==
    \/ MessageStart
    \/ ReadBytes
    \/ StreamEnd
    \/ StreamError
    \/ EndOfStreamGuard
    \/ MessageStop

ParseSpec == ParseInit /\ [][ParseNext]_vars

\* The pieces of a text between the occurrences of a separator, the rest
\* after the last occurrence included.
RECURSIVE Split(_, _)
Split(text, sep) ==
    IF find(text, sep) = None
    THEN <<text>>
    ELSE <<SubSeq(text, 1, find(text, sep)[1])>>
         \o Split(SubSeq(text, find(text, sep)[1] + Len(sep) + 1, Len(text)), sep)

\* The events of a text: its pieces that a blank line ends.
EventsOf(text) == SubSeq(Split(text, DELIMITER), 1, Len(Split(text, DELIMITER)) - 1)

\* The payloads of the data lines of an event: every line that starts with
\* "data: " and holds a JSON document.
IsPayloadLine(line) ==
    /\ starts_with(line, DATA_PREFIX)
    /\ SubSeq(line, Len(DATA_PREFIX) + 1, Len(line)) \in DOMAIN PayloadTexts
PayloadOf(line) == PayloadTexts[SubSeq(line, Len(DATA_PREFIX) + 1, Len(line))]
RECURSIVE LinePayloads(_)
LinePayloads(lines) ==
    IF lines = <<>>
    THEN <<>>
    ELSE (IF IsPayloadLine(Head(lines)) THEN <<PayloadOf(Head(lines))>> ELSE <<>>)
         \o LinePayloads(Tail(lines))
RECURSIVE EventPayloads(_)
EventPayloads(events) ==
    IF events = <<>>
    THEN <<>>
    ELSE LinePayloads(Split(Head(events), <<LF>>)) \o EventPayloads(Tail(events))

\* C26 (as claimed): the payloads handled are those of the events of the
\* bytes received, split at the blank line: of each event every line that
\* starts with "data: ", also after another line of the same event, and
\* nothing for "data: [DONE]".
C26_DataLinesParsed ==
    consumed = EventPayloads(EventsOf(from_utf8_lossy(SubSeq(wire, 1, delivered))))


\* ---------------------------------------------------------------------------
\* Requests handled at the same time
\* ---------------------------------------------------------------------------

\* axum runs anthropic_handler as one task per request; the tasks share the
\* AppState behind the Arc, and each owns its handler's locals.
Requests == {1, 2}

\* The model each request names, if any.
RequestedBy(r) == IF r = 1 THEN None ELSE Some(GPT_4O)

TaskAlphabet == {TextChunk("hi"), OpenChunk("A", "x"), FinishChunk("stop")}

\* The locals of the stream generator as declared.
InitialLocals ==
    [out |-> <<>>, had_text_content |-> FALSE, final_events_sent |-> FALSE,
     tool_indices |-> EmptyMap, current_tool_id |-> NULL,
     last_content_index |-> NothingStarted, tool_count |-> 0]

\* A bug the handler could have: the locals are one table for all requests.
TaskState_Shared(r) == tasks[CHOOSE q \in Requests : \A o \in Requests : q <= o]

\* The position and the locals a task works on: its own.
TaskState(r) == tasks[r]

ConcurrentInit ==
    /\ tasks = [r \in Requests |->
                  [pc |-> "received", model |-> NULL,
                   consumed |-> <<>>, ended_by |-> "none", s |-> InitialLocals]]
    /\ default_model \in DefaultModels
    /\ model_map \in {<<>>, (GPT_4O :> CLAUDE_OPUS_4_5)}
    /\ route = "none"
    /\ hpc = "idle"
    /\ body = EmptyBody
    /\ is_streaming = FALSE
    /\ upstream_request = NoRequest
    /\ upstream_reply = NoReply
    /\ response = NoResponse
    /\ SseIdle
    /\ TrIdle
    /\ ParseIdle
    /\ RouterIdle
    /\ GuiIdle

\* What every step of a task leaves alone: the AppState and the rest.
TaskFrame == UNCHANGED <<sse_vars, tr_vars, disp_vars, parse_vars, router_vars, gui_vars>>

\* anthropic_to_openai reads the default model and the model map.
TaskTranslate(r) ==
    /\ TaskState(r).pc = "received"
    /\ tasks' = [tasks EXCEPT ![r] =
                    [TaskState(r) EXCEPT
                        !.pc = "start",
                        !.model = map_model(unwrap_or(RequestedBy(r), default_model),
                                            model_map)]]
    /\ TaskFrame

TaskMessageStart(r) ==
    /\ TaskState(r).pc = "start"
    /\ tasks' = [tasks EXCEPT ![r] =
                    [TaskState(r) EXCEPT
                        !.pc = "reading",
                        !.s = Emit(@, MessageStartFor("msg_req", TaskState(r).model))]]
    /\ TaskFrame

TaskReadChunk(r) ==
    /\ TaskState(r).pc = "reading"
    /\ Len(TaskState(r).consumed) < MaxTaskChunks
    /\ \E c \in TaskAlphabet :
         tasks' = [tasks EXCEPT ![r] =
                     [TaskState(r) EXCEPT !.consumed = Append(@, c),
                                          !.s = HandleChunk(@, c)]]
    /\ TaskFrame

TaskStreamEnd(r) ==
    /\ TaskState(r).pc = "reading"
    /\ tasks' = [tasks EXCEPT ![r] =
                    [TaskState(r) EXCEPT !.pc = "closing", !.ended_by = "end"]]
    /\ TaskFrame

TaskStreamError(r) ==
    /\ TaskState(r).pc = "reading"
    /\ tasks' = [tasks EXCEPT ![r] =
                    [TaskState(r) EXCEPT !.pc = "closing", !.ended_by = "error"]]
    /\ TaskFrame

TaskEndOfStreamGuard(r) ==
    /\ TaskState(r).pc = "closing"
    /\ tasks' = [tasks EXCEPT ![r] =
                    [TaskState(r) EXCEPT
                        !.pc = "stopping",
                        !.s = [@ EXCEPT !.out = @ \o GuardEvents(TaskState(r).s)]]]
    /\ TaskFrame

TaskMessageStop(r) ==
    /\ TaskState(r).pc = "stopping"
    /\ tasks' = [tasks EXCEPT ![r] =
                    [TaskState(r) EXCEPT !.pc = "done",
                                         !.s = Emit(@, MessageStopEvent)]]
    /\ TaskFrame

\* The runtime resumes any task at its suspension point.
ConcurrentNext ==
    \E r \in Requests :
        \/ TaskTranslate(r)
        \/ TaskMessageStart(r)
        \/ TaskReadChunk(r)
        \/ TaskStreamEnd(r)
        \/ TaskStreamError(r)
        \/ TaskEndOfStreamGuard(r)
        \/ TaskMessageStop(r)

ConcurrentSpec == ConcurrentInit /\ [][ConcurrentNext]_vars

\* The events of a request handled alone, up to the position of its task:
\* message_start, the events of its chunks in order, the guard's, message_stop.
RECURSIVE RunChunks(_, _)
RunChunks(s, chunks) ==
    IF chunks = <<>> THEN s ELSE RunChunks(HandleChunk(s, Head(chunks)), Tail(chunks))

AloneOut(r, t) ==
    LET name == IF RequestedBy(r) = None THEN default_model ELSE RequestedBy(r)[1]
        s0 == IF t.pc \in {"received", "start"}
              THEN InitialLocals
              ELSE Emit(InitialLocals, MessageStartFor("msg_req", map_model(name, model_map)))
        s1 == RunChunks(s0, t.consumed)
    IN s1.out
       \o (IF t.pc \in {"stopping", "done"} THEN GuardEvents(s1) ELSE <<>>)
       \o (IF t.pc = "done" THEN <<MessageStopEvent>> ELSE <<>>)

\* A step changes the position and the tables of one request only.
OneTaskPerStep ==
    \A r, q \in Requests : (r # q /\ tasks'[r] # tasks[r]) => tasks'[q] = tasks[q]

Translates == Len(req_messages') = Len(req_messages) + 1
LastMessage == req_messages'[Len(req_messages')]
Added == SubSeq(messages', Len(messages) + 1, Len(messages'))

HasBlock(m, type) == \E k \in DOMAIN BlocksOf(m) : BlocksOf(m)[k].type = type
TextsOf(m) == SelectSeq(BlocksOf(m), LAMBDA b : b.type = "text")
BlankText(m) == \A k \in DOMAIN TextsOf(m) : TextsOf(m)[k].text \in {"", " "}
RECURSIVE TextOf(_)
TextOf(blocks) ==
    IF blocks = <<>>
    THEN ""
    ELSE (IF Head(blocks).type = "text" THEN Head(blocks).text ELSE "")
         \o TextOf(Tail(blocks))

\* A call with this id and, right after it, its tool message.
PairEmitted(added, id) ==
    \E k \in 1..(Len(added) - 1) :
        /\ HasCalls(added[k])
        /\ Len(added[k].tool_calls) = 1
        /\ added[k].tool_calls[1].id = id
        /\ added[k + 1].role = "tool"
        /\ added[k + 1].tool_call_id = id

QueuedIds == {pending_tool_call_ids[k] : k \in DOMAIN pending_tool_call_ids}

\* C31: an assistant message with text and tool_use blocks adds the assistant
\* text message only and queues its calls; an assistant message with
\* tool_calls is added only while a user message with tool_results is
\* translated with calls queued; that step adds the pair of every queued call
\* the message answers, empties the queue, and adds a trailing user text
\* message exactly when the message has non-blank text.
C31_DeferredToolCalls ==
    [][Translates =>
        /\ SubSeq(messages', 1, Len(messages)) = messages
        /\ (LastMessage.role = "assistant" /\ HasBlock(LastMessage, "tool_use")
             /\ TextOf(BlocksOf(LastMessage)) # "") =>
               /\ Added = <<PlainMessage("assistant", TextOf(BlocksOf(LastMessage)))>>
               /\ pending_tool_call_ids' # <<>>
               /\ {pending_tool_call_ids'[k] : k \in DOMAIN pending_tool_call_ids'}
                      = ToolUseIds(LastMessage)
        /\ (\E k \in DOMAIN Added : HasCalls(Added[k])) =>
               /\ LastMessage.role = "user"
               /\ HasBlock(LastMessage, "tool_result")
               /\ pending_tool_calls # <<>>
        /\ (LastMessage.role = "user" /\ HasBlock(LastMessage, "tool_result")
             /\ pending_tool_calls # <<>>) =>
               /\ \A id \in QueuedIds \cap ToolResultIds(LastMessage) :
                      PairEmitted(Added, id)
               /\ pending_tool_calls' = <<>>
               /\ pending_tool_call_ids' = <<>>
               /\ IF BlankText(LastMessage)
                  THEN \A k \in DOMAIN Added : "tool_calls" \in DOMAIN Added[k]
                                                \/ Added[k].role = "tool"
                  ELSE /\ Added[Len(Added)]
                            = PlainMessage("user", TextOf(BlocksOf(LastMessage)))
                       /\ \A k \in 1..(Len(Added) - 1) :
                              "tool_calls" \in DOMAIN Added[k] \/ Added[k].role = "tool"
    ]_vars

\* C31 witness: scenario S2, translated in its order.
C31_Witness ==
    /\ req_messages =
         <<Msg("user", StringContent("q")),
           Msg("assistant", ArrayContent(<<TextBlock("t"),
                                           ToolUse("T1", "f", << <<"a", 1>> >>)>>)),
           Msg("user", ArrayContent(<<ToolResult("T1", StringContent("42"))>>))>>
    /\ messages =
         <<PlainMessage("user", "q"),
           PlainMessage("assistant", "t"),
           AssistantCalls(<<ToolCall("T1", "f", "{\"a\":1}")>>),
           ToolMessage("T1", "f", "42")>>
    /\ pending_tool_calls = <<>>

\* C34: the validation at the end of the translation answers OK for every
\* request, and the translated list is returned.
C34_ValidationNeverFails ==
    tpc = "done" => validation = "ok"

\* C34 witness: a request with two calls answered in one user message, one more
\* result without a call, and an assistant message whose call stays
\* unanswered, was translated and validated.
C34_Witness ==
    /\ tpc = "done"
    /\ validation = "ok"
    /\ \E k \in DOMAIN messages : HasCalls(messages[k])
    /\ \E k \in DOMAIN messages :
          /\ messages[k].role = "tool"
          /\ (k = 1 \/ ~HasCalls(messages[k - 1]))
    /\ HasUnmatchedToolUse(req_messages)

\* The tool_result blocks of the user messages of a request, and the tool
\* messages of a list.
RECURSIVE ResultBlockCount(_)
ResultBlockCount(req) ==
    IF req = <<>>
    THEN 0
    ELSE (IF Head(req).role = "user" THEN Len(ResultBlocks(Head(req))) ELSE 0)
         + ResultBlockCount(Tail(req))
ToolMessageCount(msgs) == Cardinality({k \in DOMAIN msgs : msgs[k].role = "tool"})

\* C35 (as claimed): the translated list has as many tool messages as the user
\* messages of the request have tool_result blocks, also when two blocks of
\* one message carry the same tool_use_id.
C35_EveryResultKept ==
    ToolMessageCount(messages) = ResultBlockCount(req_messages)


\* ---------------------------------------------------------------------------
\* Properties of the byte stream: network chunk boundaries
\* ---------------------------------------------------------------------------

\* The events after the whole stream arrived as one network chunk.
OneChunkOut(bytes) ==
    DrainBuffer([s |-> Emit(InitialLocals, MessageStartEvent), consumed |-> <<>>,
                 buffer |-> from_utf8_lossy(bytes)]).s.out

\* C33 (as claimed): once all bytes of the upstream stream have arrived, the
\* events emitted are those of the stream arriving as one chunk, however the
\* bytes were split into network chunks: inside an event, inside the blank
\* line, inside a character of two bytes.
C33_ChunkBoundaryIndependence ==
    (pc = "reading" /\ delivered = Len(wire)) => out = OneChunkOut(wire)

\* The same for streams of ASCII bytes only.
AsciiOnly(bytes) == \A k \in DOMAIN bytes : bytes[k] \notin {LEAD_BYTE, CONT_BYTE}
ChunkBoundaryIndependenceAscii ==
    (pc = "reading" /\ delivered = Len(wire) /\ AsciiOnly(wire)) =>
        out = OneChunkOut(wire)

\* ---------------------------------------------------------------------------
\* Router (main) and the GUI's health probe
\* ---------------------------------------------------------------------------

\* A request line: the method and the path, the path as its segments
\* ("/" has none).
RequestLine(method, path) == <<[method |-> method, path |-> path]>>
ROOT_PATH == <<>>
MESSAGES_PATH == <<"v1", "messages">>
HEALTH_PATH == <<"health">>
CHAT_PATH == <<"chat", "completions">>
GET_HEALTH == RequestLine("GET", HEALTH_PATH)

\* The request lines of the clients: the GUI's probe among them.
RequestLines ==
    { RequestLine(m, p) : m \in {"GET", "POST"},
                          p \in {ROOT_PATH, MESSAGES_PATH, HEALTH_PATH, CHAT_PATH} }

\* A bug the router could have: /health is answered like "/".
router_HealthIsRoot(line) ==
    IF line.path = ROOT_PATH \/ line.path = HEALTH_PATH
    THEN IF line.method = "GET" THEN "root" ELSE "method_not_allowed"
    ELSE IF line.path = MESSAGES_PATH
         THEN IF line.method = "POST" THEN "anthropic" ELSE "method_not_allowed"
         ELSE "openai"

\* The routes of the Router: "/" answers GET, "/v1/messages" answers POST,
\* every other path goes to the passthrough handler with any method. A path
\* that has a route but not for the method is answered 405.
router(line) ==
    IF line.path = ROOT_PATH
    THEN IF line.method = "GET" THEN "root" ELSE "method_not_allowed"
    ELSE IF line.path = MESSAGES_PATH
         THEN IF line.method = "POST" THEN "anthropic" ELSE "method_not_allowed"
         ELSE "openai"

\* The body that comes with a request line: a GET has none.
BodiesOf(line) ==
    IF line.method = "GET"
    THEN {EmptyBody}
    ELSE IF router(line) = "anthropic" THEN AnthropicBodies ELSE OpenAIBodies

OK_TEXT == <<"O", "K">>
RootResponse == [status |-> 200, content_type |-> "text/plain", body |-> [raw |-> OK_TEXT]]
MethodNotAllowed == [status |-> 405, content_type |-> "none", body |-> [raw |-> <<>>]]

ProbeInit ==
    /\ request_line \in RequestLines
    /\ route = "none"
    /\ hpc = "routing"
    /\ default_model \in {<<>>, CLAUDE_OPUS_4_5}
    /\ model_map \in {<<>>, (GPT_4O :> CLAUDE_OPUS_4_5)}
    /\ body \in BodiesOf(request_line[1])
    /\ is_streaming = FALSE
    /\ upstream_request = NoRequest
    /\ upstream_reply = NoReply
    /\ response = NoResponse
    /\ SseIdle
    /\ TrIdle
    /\ ParseIdle
    /\ TasksIdle
    /\ GuiIdle

\* The Router hands the request to a handler.
RouteToHandler ==
    /\ hpc = "routing"
    /\ router(request_line[1]) \in {"anthropic", "openai"}
    /\ route' = router(request_line[1])
    /\ hpc' = "received"
    /\ UNCHANGED <<default_model, model_map, body, is_streaming, upstream_request,
                   upstream_reply, response>>
    /\ UNCHANGED not_disp_vars

\* The Router answers the request itself: "OK" for GET /, 405 for a method
\* the path has no route for.
RouterAnswers ==
    /\ hpc = "routing"
    /\ router(request_line[1]) \in {"root", "method_not_allowed"}
    /\ route' = router(request_line[1])
    /\ response' = IF router(request_line[1]) = "root" THEN RootResponse
                   ELSE MethodNotAllowed
    /\ hpc' = "done"
    /\ UNCHANGED <<default_model, model_map, body, is_streaming, upstream_request,
                   upstream_reply>>
    /\ UNCHANGED not_disp_vars

ProbeNext ==
    \/ RouteToHandler
    \/ RouterAnswers
    \/ AnthropicTranslate
    \/ AnthropicSendError
    \/ AnthropicReply
    \/ OpenAIBodyError
    \/ OpenAITransform
    \/ OpenAISendError
    \/ OpenAIReply

ProbeSpec == ProbeInit /\ [][ProbeNext]_vars

\* The text the GUI looks for in the answer to its probe.
STATUS_OK ==
    <<"\"", "s", "t", "a", "t", "u", "s", "\"", ":", "\"", "o", "k", "\"">>
STATUS_OK_SPACED ==
    <<"\"", "s", "t", "a", "t", "u", "s", "\"", ":", " ", "\"", "o", "k", "\"">>

\* The bytes one read of the probe takes.
ProbeBufferBytes == 512

\* The text of a response the probe reads: only a body passed as text can
\* hold the words looked for.
ResponseText(resp) ==
    IF "body" \in DOMAIN resp /\ "raw" \in DOMAIN resp.body THEN resp.body.raw ELSE <<>>

\* check_proxy_health on the response to GET /health: the first read holds
\* "status":"ok", with or without a space.
check_proxy_health(resp) ==
    LET text == ResponseText(resp)
        read == SubSeq(text, 1, IF Len(text) < ProbeBufferBytes THEN Len(text)
                                ELSE ProbeBufferBytes)
    IN contains(read, STATUS_OK) \/ contains(read, STATUS_OK_SPACED)

\* C32: the proxy answers GET /health itself with 200 and a body holding
\* status ok, and sends nothing upstream for it, so the GUI's health check
\* succeeds whenever the proxy is listening.
C32_HealthAnsweredLocally ==
    (request_line = GET_HEALTH /\ hpc = "done") =>
        /\ upstream_request = NoRequest
        /\ Has200
        /\ check_proxy_health(response)

\* ---------------------------------------------------------------------------
\* Desktop GUI: the supervisor of the proxy process (cortex-proxy-gui)
\* ---------------------------------------------------------------------------

not_gui_vars == <<sse_vars, tr_vars, disp_vars, parse_vars, conc_vars, router_vars>>

\* The lines the log buffer holds.
LogCapacity == 300
\* The seconds a spawned child is shown as starting.
StartupSeconds == 3

\* Bounds: the lines logged in one run, and the lines of the child's output
\* waiting in the channel.
MaxLogLines == 4
MaxPipe == 1

\* The proxy somebody else started: its process id. The GUI's children are
\* numbered from 1.
EXTERNAL == 0

\* Paths: the proxy binary and the config file. The binary field of the
\* window holds the path, nothing, or a blank.
PROXY_BIN == <<"/", "p">>
CONFIG_PATH == <<"/", "c">>
ProxyBins == {<<>>, <<" ">>, PROXY_BIN}

\* str::trim: the text without leading and trailing blanks.
RECURSIVE trim(_)
trim(s) ==
    IF s = <<>> THEN s
    ELSE IF Head(s) = " " THEN trim(Tail(s))
    ELSE IF s[Len(s)] = " " THEN trim(SubSeq(s, 1, Len(s) - 1))
    ELSE s

\* The log after earlier Starts with binary paths that did not exist, each
\* a path of its own: two lines per Start.
EarlierLine(i) ==
    IF i % 2 = 1
    THEN "Proxy binary not found: /missing/" \o ToString((i + 1) \div 2)
    ELSE "Update the path above or install cortex-proxy in your PATH."
EarlierLog(n) == [i \in 1..n |-> EarlierLine(i)]
EarlierLines == {EarlierLine(i) : i \in 1..LogCapacity}

\* The lines logged since: the bound of a run is on these.
Logged(logs) == Cardinality({i \in 1..Len(logs) : logs[i] \notin EarlierLines})

\* The GUI and what it acts on, as one value the methods take and return.
GuiWorld == [state |-> state, os |-> os]

\* A bug append_log could have: the newest line is dropped when the buffer
\* is full.
append_log_DropsNewest(g, line) ==
    IF Len(g.state.logs) >= LogCapacity
    THEN [g EXCEPT !.state.logs = SubSeq(@, 1, Len(@) - 1) \o <<line>>]
    ELSE [g EXCEPT !.state.logs = @ \o <<line>>]

\* append_log: pop_front when 300 lines are held, then push_back.
append_log(g, line) ==
    IF Len(g.state.logs) >= LogCapacity
    THEN [g EXCEPT !.state.logs = Tail(@) \o <<line>>]
    ELSE [g EXCEPT !.state.logs = @ \o <<line>>]

\* check_proxy_health(port) as the GUI sees it: something listens on the
\* port and answers the probe with status ok.
Healthy(o) == o.listening # {}

\* The children of the GUI that run.
Children(o) == o.running \ {EXTERNAL}

\* What the system calls of start_proxy can do: all succeed, the write of the
\* example config fails, the spawn fails.
Outcomes == {"ok", "write_fails", "spawn_fails"}

\* Command::spawn succeeded: the child runs, a new channel carries its output.
Spawned(g) ==
    LET pid == g.os.spawned + 1 IN
    [g EXCEPT !.state.status = "Starting...",
              !.state.last_started = Some(0),
              !.state.child = Some(pid),
              !.state.log_rx = Some(pid),
              !.os.running = @ \cup {pid},
              !.os.spawned = pid,
              !.os.pipe = <<>>]

\* A bug start_proxy could have: a child already managed is not looked at.
start_proxy_NoChildCheck(g, outcome) ==
    IF Healthy(g.os)
    THEN append_log([g EXCEPT !.state.status = "Running (external) :8766"],
                    "Proxy already running on port 8766.")
    ELSE IF trim(g.state.proxy_bin) = <<>>
    THEN append_log(append_log(g, "Proxy binary path is empty."),
                    "Set the path above or install cortex-proxy in your PATH.")
    ELSE IF g.state.proxy_bin \notin g.os.files
    THEN append_log(append_log(g, "Proxy binary not found: /p"),
                    "Update the path above or install cortex-proxy in your PATH.")
    ELSE IF CONFIG_PATH \notin g.os.files
    THEN IF outcome = "write_fails"
         THEN append_log(g, "Failed to create config")
         ELSE append_log(append_log([g EXCEPT !.os.files = @ \cup {CONFIG_PATH}],
                                    "Created example config at /c"),
                         "Edit the config (add your Snowflake credentials) and click Start again.")
    ELSE IF outcome = "spawn_fails"
    THEN append_log(append_log(g, "Starting: /p --config /c"), "Failed to start proxy")
    ELSE append_log(Spawned(append_log(g, "Starting: /p --config /c")),
                    "Proxy process spawned. Waiting for health check...")

\* start_proxy: the guards in the order of the code, then the spawn.
start_proxy(g, outcome) ==
    IF g.state.child # None
    THEN append_log(g, "Proxy already managed by this GUI.")
    ELSE IF Healthy(g.os)
    THEN append_log([g EXCEPT !.state.status = "Running (external) :8766"],
                    "Proxy already running on port 8766.")
    ELSE IF trim(g.state.proxy_bin) = <<>>
    THEN append_log(append_log(g, "Proxy binary path is empty."),
                    "Set the path above or install cortex-proxy in your PATH.")
    ELSE IF g.state.proxy_bin \notin g.os.files
    THEN append_log(append_log(g, "Proxy binary not found: /p"),
                    "Update the path above or install cortex-proxy in your PATH.")
    ELSE IF CONFIG_PATH \notin g.os.files
    THEN IF outcome = "write_fails"
         THEN append_log(g, "Failed to create config")
         ELSE append_log(append_log([g EXCEPT !.os.files = @ \cup {CONFIG_PATH}],
                                    "Created example config at /c"),
                         "Edit the config (add your Snowflake credentials) and click Start again.")
    ELSE IF outcome = "spawn_fails"
    THEN append_log(append_log(g, "Starting: /p --config /c"), "Failed to start proxy")
    ELSE append_log(Spawned(append_log(g, "Starting: /p --config /c")),
                    "Proxy process spawned. Waiting for health check...")

\* A bug stop_proxy could have: the child is forgotten and left running.
stop_proxy_NoKill(g) ==
    append_log([g EXCEPT !.state.child = None,
                         !.state.status = "Stopped",
                         !.state.last_started = None],
               "Proxy stopped.")

\* stop_proxy: the child, if one is managed, is killed and waited for.
stop_proxy(g) ==
    LET killed == IF g.state.child # None THEN {g.state.child[1]} ELSE {} IN
    append_log([g EXCEPT !.state.child = None,
                         !.state.status = "Stopped",
                         !.state.last_started = None,
                         !.os.running = @ \ killed,
                         !.os.listening = @ \ killed],
               "Proxy stopped.")

\* refresh_status: the status line from the child and the health check.
refresh_status(g) ==
    IF g.state.child # None /\ Healthy(g.os)
    THEN [g EXCEPT !.state.status = "Running :8766"]
    ELSE IF g.state.child # None
    THEN IF g.state.last_started = None THEN g
         ELSE IF g.state.last_started[1] < StartupSeconds
              THEN [g EXCEPT !.state.status = "Starting..."]
              ELSE [g EXCEPT !.state.status = "Not responding"]
    ELSE IF Healthy(g.os)
    THEN [g EXCEPT !.state.status = "Running (external) :8766"]
    ELSE [g EXCEPT !.state.status = "Stopped", !.state.last_started = None]

\* The lines of the channel go to the log, in order.
RECURSIVE Drain(_)
Drain(g) ==
    IF g.os.pipe = <<>> THEN g
    ELSE Drain(append_log([g EXCEPT !.os.pipe = Tail(@)], Head(g.os.pipe)))

\* poll_child: the child's output, then try_wait, then the status.
poll_child(g) ==
    LET g1 == IF g.state.log_rx # None THEN Drain(g) ELSE g
        g2 == IF g1.state.child # None /\ g1.state.child[1] \notin g1.os.running
              THEN append_log([g1 EXCEPT !.state.last_started = None,
                                         !.state.child = None],
                              "Proxy exited: status")
              ELSE g1
    IN refresh_status(g2)

\* toggle_proxy: stop when the health check answers, start otherwise.
toggle_proxy(g, outcome) ==
    IF Healthy(g.os)
    THEN IF g.state.child # None
         THEN stop_proxy(g)
         ELSE append_log(g, "Proxy running externally. Stop it from its own terminal/process.")
    ELSE start_proxy(g, outcome)

\* AppState::new, after a session in which n lines were logged; the proxy of
\* somebody else may run, the binary and the config file may exist.
GuiInit ==
    /\ \E bin \in ProxyBins, n \in {0, LogCapacity - 2, LogCapacity} :
         state = [proxy_bin |-> bin, status |-> "Stopped", last_started |-> None,
                  child |-> None, log_rx |-> None, logs |-> EarlierLog(n),
                  should_quit |-> FALSE]
    /\ \E files \in SUBSET {PROXY_BIN, CONFIG_PATH}, ext \in SUBSET {EXTERNAL} :
         os = [running |-> ext, listening |-> ext, files |-> files,
               spawned |-> 0, pipe |-> <<>>]
    /\ app_pc = "running"
    /\ SseIdle
    /\ TrIdle
    /\ DispIdle
    /\ ParseIdle
    /\ TasksIdle
    /\ RouterIdle

\* The event loop takes an event: it runs, and the run's bound is not used up.
Handling == app_pc = "running" /\ Logged(state.logs) < MaxLogLines

\* The result of a method becomes the state.
Becomes(g) == state' = g.state /\ os' = g.os

\* Tray menu: Start.
MenuStart ==
    /\ Handling
    /\ \E outcome \in Outcomes : Becomes(start_proxy(GuiWorld, outcome))
    /\ UNCHANGED app_pc
    /\ UNCHANGED not_gui_vars

\* Tray menu: Stop.
MenuStop ==
    /\ Handling
    /\ Becomes(stop_proxy(GuiWorld))
    /\ UNCHANGED app_pc
    /\ UNCHANGED not_gui_vars

\* Tray menu: Quit. The event loop is told to exit.
MenuQuit ==
    /\ Handling
    /\ ~state.should_quit
    /\ state' = [state EXCEPT !.should_quit = TRUE]
    /\ UNCHANGED <<os, app_pc>>
    /\ UNCHANGED not_gui_vars

\* RedrawRequested: poll_child, then the window is drawn.
RedrawRequested ==
    /\ Handling
    /\ Becomes(poll_child(GuiWorld))
    /\ app_pc' = "drawing"
    /\ UNCHANGED not_gui_vars

\* draw, no button clicked.
DrawOnly ==
    /\ app_pc = "drawing"
    /\ app_pc' = "running"
    /\ UNCHANGED <<state, os>>
    /\ UNCHANGED not_gui_vars

\* draw, the Start/Stop button clicked.
ClickToggle ==
    /\ app_pc = "drawing"
    /\ \E outcome \in Outcomes : Becomes(toggle_proxy(GuiWorld, outcome))
    /\ app_pc' = "running"
    /\ UNCHANGED not_gui_vars

\* draw, the Quit button clicked.
ClickQuit ==
    /\ app_pc = "drawing"
    /\ ~state.should_quit
    /\ state' = [state EXCEPT !.should_quit = TRUE]
    /\ app_pc' = "running"
    /\ UNCHANGED os
    /\ UNCHANGED not_gui_vars

\* exiting: the event loop ends and stop_proxy runs.
Exiting ==
    /\ app_pc = "running"
    /\ state.should_quit
    /\ Becomes(stop_proxy(GuiWorld))
    /\ app_pc' = "exited"
    /\ UNCHANGED not_gui_vars

\* The rest of the machine, while the GUI runs.
GuiRuns == app_pc \in {"running", "drawing"}

\* Somebody starts a proxy on the port, or stops it.
ExternalStarts ==
    /\ GuiRuns
    /\ os.listening = {}
    /\ EXTERNAL \notin os.running
    /\ os' = [os EXCEPT !.running = @ \cup {EXTERNAL}, !.listening = {EXTERNAL}]
    /\ UNCHANGED <<state, app_pc>>
    /\ UNCHANGED not_gui_vars

ExternalStops ==
    /\ GuiRuns
    /\ EXTERNAL \in os.running
    /\ os' = [os EXCEPT !.running = @ \ {EXTERNAL}, !.listening = @ \ {EXTERNAL}]
    /\ UNCHANGED <<state, app_pc>>
    /\ UNCHANGED not_gui_vars

\* A child binds the port and answers the probe.
ChildListens ==
    /\ GuiRuns
    /\ os.listening = {}
    /\ \E pid \in Children(os) : os' = [os EXCEPT !.listening = {pid}]
    /\ UNCHANGED <<state, app_pc>>
    /\ UNCHANGED not_gui_vars

\* A child ends by itself.
ChildExits ==
    /\ GuiRuns
    /\ \E pid \in Children(os) :
         os' = [os EXCEPT !.running = @ \ {pid}, !.listening = @ \ {pid}]
    /\ UNCHANGED <<state, app_pc>>
    /\ UNCHANGED not_gui_vars

\* The child whose channel the GUI holds writes a line.
ChildWrites ==
    /\ GuiRuns
    /\ state.log_rx # None
    /\ state.log_rx[1] \in os.running
    /\ Len(os.pipe) < MaxPipe
    /\ os' = [os EXCEPT !.pipe = @ \o <<"output">>]
    /\ UNCHANGED <<state, app_pc>>
    /\ UNCHANGED not_gui_vars

\* A second passes.
Tick ==
    /\ GuiRuns
    /\ state.last_started # None
    /\ state.last_started[1] < StartupSeconds
    /\ state' = [state EXCEPT !.last_started = Some(@[1] + 1)]
    /\ UNCHANGED <<os, app_pc>>
    /\ UNCHANGED not_gui_vars

GuiNext ==
    \/ MenuStart
    \/ MenuStop
    \/ MenuQuit
    \/ RedrawRequested
    \/ DrawOnly
    \/ ClickToggle
    \/ ClickQuit
    \/ Exiting
    \/ ExternalStarts
    \/ ExternalStops
    \/ ChildListens
    \/ ChildExits
    \/ ChildWrites
    \/ Tick

GuiSpec == GuiInit /\ [][GuiNext]_vars

\* ---------------------------------------------------------------------------
\* Properties of the GUI
\* ---------------------------------------------------------------------------

\* start_proxy is called: from the tray menu, or by toggle_proxy when the
\* health check does not answer.
StartCalled == MenuStart \/ (ClickToggle /\ ~Healthy(os))

\* The cases in which start_proxy returns before the spawn.
ChildManaged == state.child # None
BinaryUnusable == trim(state.proxy_bin) = <<>> \/ state.proxy_bin \notin os.files
ConfigMissing == CONFIG_PATH \notin os.files

NothingSpawned == os'.spawned = os.spawned /\ os'.running = os.running

LastLine(logs) == logs[Len(logs)]

\* C36: the GUI manages at most one child process, and every running child
\* it spawned is the managed one; start_proxy spawns no process when a child
\* is managed, when the health check answers, when the binary path is empty
\* or missing, or when the config file does not exist, and in that last case
\* (the other guards passed) it writes the example config unless the write
\* fails.
C36_SingleManagedChild ==
    /\ [](/\ Cardinality(Children(os)) <= 1
          /\ \A pid \in Children(os) : state.child = Some(pid))
    /\ [][StartCalled =>
            /\ (ChildManaged \/ Healthy(os) \/ BinaryUnusable \/ ConfigMissing)
                  => NothingSpawned
            /\ (~ChildManaged /\ ~Healthy(os) /\ ~BinaryUnusable /\ ConfigMissing)
                  => \/ CONFIG_PATH \in os'.files
                     \/ LastLine(state'.logs) = "Failed to create config"]_vars

\* A second Start was refused while the child of the first runs.
C36_Witness ==
    /\ app_pc = "running"
    /\ state.child = Some(1)
    /\ os.running = {1}
    /\ os.spawned = 1
    /\ LastLine(state.logs) = "Proxy already managed by this GUI."

\* C37: whenever the GUI manages a child process, toggle_proxy kills it and
\* leaves child empty with the status "Stopped", also while the child is
\* starting or does not answer the health check.
C37_ToggleStopsManagedChild ==
    [][(ClickToggle /\ ChildManaged) =>
          /\ state'.child = None
          /\ state'.status = "Stopped"
          /\ state.child[1] \notin os'.running]_vars

\* What toggle_proxy does with a managed child: the child is killed when the
\* health check answers; otherwise start_proxy refuses and nothing changes
\* but the log.
ToggleWithManagedChild ==
    [][(ClickToggle /\ ChildManaged) =>
          IF Healthy(os)
          THEN /\ state'.child = None
               /\ state'.status = "Stopped"
               /\ state.child[1] \notin os'.running
          ELSE /\ state'.child = state.child
               /\ state'.status = state.status
               /\ os' = os
               /\ LastLine(state'.logs) = "Proxy already managed by this GUI."]_vars

\* The event loop runs a handler to its end, and after exit() was called it
\* ends with exiting.
GuiLiveSpec ==
    /\ GuiSpec
    /\ WF_vars(DrawOnly \/ ClickToggle \/ ClickQuit)
    /\ SF_vars(Exiting)

\* C38: both Quit entries ask the event loop to exit, and the loop then ends
\* through exiting; after the GUI has exited no child it spawned runs, and the exit is
\* reached only through stop_proxy (its line is the last of the log); the
\* button, the Stop entry and the exit never end a proxy the GUI did not
\* spawn.
C38_NoOrphanOnQuit ==
    /\ [](app_pc = "exited" =>
            /\ Children(os) = {}
            /\ state.child = None
            /\ state.status = "Stopped"
            /\ LastLine(state.logs) = "Proxy stopped.")
    /\ [][(MenuQuit \/ ClickQuit) => state'.should_quit]_vars
    /\ [][app_pc' = "exited" => Exiting]_vars
    /\ state.should_quit ~> app_pc = "exited"
    /\ [][(ClickToggle \/ MenuStop \/ Exiting) =>
             /\ EXTERNAL \in os.running => EXTERNAL \in os'.running
             /\ EXTERNAL \in os.listening => EXTERNAL \in os'.listening]_vars

\* The GUI has exited right after it spawned a child, while the proxy of
\* somebody else runs.
C38_Witness ==
    /\ app_pc = "exited"
    /\ os.spawned = 1
    /\ os.running = {EXTERNAL}
    /\ Len(state.logs) >= 3
    /\ state.logs[Len(state.logs) - 1] = "Proxy process spawned. Waiting for health check..."

\* The lines of the log after a step: those before it with k lines appended,
\* the oldest dropped where the buffer was full.
AppendedLines(k) ==
    LET old == state.logs
        new == state'.logs
        dropped == Len(old) + k - Len(new)
    IN /\ Len(new) = (IF Len(old) + k > LogCapacity THEN LogCapacity ELSE Len(old) + k)
       /\ \A i \in 1..(Len(new) - k) : new[i] = old[i + dropped]

\* C39: the log buffer never holds more than 300 lines; every step appends
\* lines at the end and drops only the oldest, keeping the order of the
\* rest; the single append of the menu's Stop on a full buffer removes
\* exactly the first line and puts "Proxy stopped." last.
C39_LogBufferBound ==
    /\ [](Len(state.logs) <= LogCapacity)
    /\ [][\E k \in 0..(MaxPipe + 2) : AppendedLines(k)]_vars
    /\ [][MenuStop =>
            /\ AppendedLines(1)
            /\ LastLine(state'.logs) = "Proxy stopped."
            /\ Len(state.logs) = LogCapacity
                  => state'.logs = Tail(state.logs) \o <<"Proxy stopped.">>]_vars

\* A line was appended to the full buffer: the oldest lines are gone.
C39_Witness ==
    /\ Len(state.logs) = LogCapacity
    /\ state.logs[1] = EarlierLine(2)
    /\ LastLine(state.logs) = "Proxy stopped."

====
